---------------------------- MODULE Spec2Model ----------------------------
(***************************************************************************)
(* Model of the Pico log recorder link worker (serial_reader.py), the      *)
(* consumer loop that drains its output queue (main.py) and the byte-level *)
(* line framing both loops of the worker share.                            *)
(*                                                                         *)
(* Bytes are numbers 0..255, decoded text is a sequence of code points.    *)
(* Delays are counted in units of 1/128 s, so that every value the backoff *)
(* can take (0.5 * 1.5^k, capped at 5.0) is an integer.                    *)
(***************************************************************************)
EXTENDS Integers, Sequences, FiniteSets, TLC

(***************************************************************************)
(* Bounds of the model.                                                    *)
(***************************************************************************)
\* longest chunk one ser.read() returns in the lifecycle specification
MaxChunk == 2
\* most bytes the accumulator holds after a read in the lifecycle specification
MaxBuf == 3
\* most line-feed bytes received on one connection
MaxLines == 2
\* most successful opens of the data connection
MaxEpochs == 2
\* most backoff sleeps in a row before the first connection, where the delay
\* grows to its cap, and most after a connection
MaxFails == 8
MaxRefails == 2
\* polls of the drive locator before its deadline has certainly passed
MaxPolls == 2
\* capacity of the output queue (QUEUE_MAX_SIZE, 1000 in config.py, scaled down)
QueueCap == 1
\* copy attempts per image (UF2_COPY_RETRY, imported from config but not set there)
CopyRetry == 2
\* longest byte stream fed to the framer in the framing specification
MaxStream == 5
\* most ports comports() lists in the port-resolution specification
MaxPorts == 3
\* most partitions psutil.disk_partitions() lists in the drive-location
\* specification
MaxParts == 3
\* ready messages written in one handshake that are told apart: MaxReady stands
\* for that many or more
MaxReady == 3
\* write_line calls made on one recorder, the days they fall on, and the highest
\* session number found on disk when a date folder is scanned
MaxWrites == 3
MaxDays == 2
MaxExisting == 2
MaxEvents == 9

(***************************************************************************)
(* Program constants.                                                      *)
(***************************************************************************)
LF == 10
CR == 13
\* config.INITIAL_BACKOFF = 0.5 s and config.MAX_BACKOFF = 5.0 s, in 1/128 s
INITIAL_BACKOFF == 64
MAX_BACKOFF == 640
\* U+FFFD, what decode(errors="replace") puts for an invalid byte
REPLACEMENT == 65533
\* config.DEFAULT_SESSION_MARKER, "::RPI-PICO-LOG::START", shortened to "S"
DEFAULT_SESSION_MARKER == <<83>>

NoPort == "None"
NoMount == "None"
PortNames == {"ttyACM0"}
ImageNames == {"a.uf2", "b.uf2"}
\* the bytes the device sends in the lifecycle specification: LF and 'S'
LinkBytes == {LF, 83}
\* the bytes of the framing specification: LF, CR, 'a', and the two bytes of
\* the UTF-8 encoding of U+00E9 (0xC3 0xA9), each invalid on its own
FrameBytes == {LF, CR, 97, 195, 169}

Min(a, b) == IF a < b THEN a ELSE b

(***************************************************************************)
(* Pure functions of the framing.                                          *)
(***************************************************************************)
\* bytes.find(b"\n"): the 1-based index of the first line feed, 0 for -1
Find(buf) ==
    IF \E i \in 1..Len(buf) : buf[i] = LF
    THEN CHOOSE i \in 1..Len(buf) : buf[i] = LF /\ \A j \in 1..(i - 1) : buf[j] # LF
    ELSE 0

\* a strip that takes every trailing carriage return, as raw.rstrip(b"\r")
RECURSIVE StripCR_All(_)
StripCR_All(raw) ==
    IF Len(raw) > 0 /\ raw[Len(raw)] = CR
    THEN StripCR_All(SubSeq(raw, 1, Len(raw) - 1))
    ELSE raw

\* raw = buf[:nl]; if raw.endswith(b"\r"): raw = raw[:-1]
StripCR(raw) ==
    IF Len(raw) > 0 /\ raw[Len(raw)] = CR THEN SubSeq(raw, 1, Len(raw) - 1) ELSE raw

\* raw.decode("utf-8", errors="replace") for ASCII bytes, two-byte sequences
\* (lead 0xC2..0xDF, continuation 0x80..0xBF) and invalid bytes below 0xE0
RECURSIVE Decode(_)
Decode(raw) ==
    IF raw = <<>> THEN <<>>
    ELSE LET b == Head(raw) IN
         IF b < 128 THEN <<b>> \o Decode(Tail(raw))
         ELSE IF b \in 194..223 /\ Len(raw) >= 2 /\ raw[2] \in 128..191
              THEN <<(b - 192) * 64 + (raw[2] - 128)>> \o Decode(SubSeq(raw, 3, Len(raw)))
              ELSE <<REPLACEMENT>> \o Decode(Tail(raw))

\* the text of the line that ends at index nl of buf
LineAt(buf, nl) == Decode(StripCR(SubSeq(buf, 1, nl - 1)))

\* what follows the line feed at index nl: buf after del buf[: nl + 1]
Rest(buf, nl) == SubSeq(buf, nl + 1, Len(buf))

\* a check for the marker that takes only a line equal to it
Contains_Exact(text, marker) == text = marker

\* session_marker in text
Contains(text, marker) ==
    \E i \in 1..(Len(text) - Len(marker) + 1) :
        SubSeq(text, i, i + Len(marker) - 1) = marker

\* what follows the last line feed of s; s itself when it has none
AfterLastLF(s) ==
    IF \E i \in 1..Len(s) : s[i] = LF
    THEN LET last == CHOOSE i \in 1..Len(s) :
                         s[i] = LF /\ \A j \in (i + 1)..Len(s) : s[j] # LF
         IN  SubSeq(s, last + 1, Len(s))
    ELSE s

CountLF(s) == Cardinality({i \in 1..Len(s) : s[i] = LF})

\* the chunk-processing loop of _read_loop as a function: every complete line
\* of buf \o chunk in order, and what stays in the accumulator
RECURSIVE Drain(_, _)
Drain(buf, lines) ==
    LET nl == Find(buf) IN
    IF nl = 0 THEN [lines |-> lines, buf |-> buf]
    ELSE Drain(Rest(buf, nl), Append(lines, LineAt(buf, nl)))

\* a loop that looks for lines in the new chunk only
ProcessChunk_ChunkOnly(buf, chunk) ==
    LET r == Drain(chunk, <<>>) IN [lines |-> r.lines, buf |-> buf \o r.buf]

ProcessChunk(buf, chunk) == Drain(buf \o chunk, <<>>)

\* a line cut out of buf that is not deleted from it
DelLine_Keep(buf, nl) == buf

\* del buf[: nl + 1] in _read_loop
DelLine(buf, nl) == Rest(buf, nl)

\* a handshake that takes the first complete line for the marker line
HandshakeScan_NoFilter(buf) ==
    LET nl == Find(buf) IN
    IF nl = 0 THEN [found |-> FALSE, text |-> <<>>, buf |-> buf]
    ELSE [found |-> TRUE, text |-> LineAt(buf, nl), buf |-> Rest(buf, nl)]

\* the chunk-processing loop of _perform_handshake as a function: lines are
\* dropped up to the first one that contains the marker, where the loop breaks
RECURSIVE HandshakeScan(_)
HandshakeScan(buf) ==
    LET nl == Find(buf) IN
    IF nl = 0 THEN [found |-> FALSE, text |-> <<>>, buf |-> buf]
    ELSE IF Contains(LineAt(buf, nl), DEFAULT_SESSION_MARKER)
         THEN [found |-> TRUE, text |-> LineAt(buf, nl), buf |-> Rest(buf, nl)]
         ELSE HandshakeScan(Rest(buf, nl))

\* a delay that doubles
NextBackoff_Double(b) == Min(MAX_BACKOFF, b * 2)

\* backoff = min(MAX_BACKOFF, backoff * 1.5)
NextBackoff(b) == Min(MAX_BACKOFF, (b * 3) \div 2)

SeqsUpTo(S, n) == UNION {[1..k -> S] : k \in 0..n}

(***************************************************************************)
(* Port resolution: find_pico_port() of utils.py and the closure _get_port *)
(* of run_threads(). A string is the sequence of its character codes; None *)
(* in place of a string is the empty string, which the code treats alike   *)
(* (if preferred_port, product_hint or "", p.product or "").               *)
(***************************************************************************)
\* None in place of a number (vid, pid)
NoneId == 0 - 1

\* str.lower() and str.upper() on ASCII
Lower(s) == [i \in 1..Len(s) |-> IF s[i] \in 65..90 THEN s[i] + 32 ELSE s[i]]
Upper(s) == [i \in 1..Len(s) |-> IF s[i] \in 97..122 THEN s[i] - 32 ELSE s[i]]

\* str.startswith(prefix)
StartsWith(s, prefix) ==
    Len(s) >= Len(prefix) /\ SubSeq(s, 1, Len(prefix)) = prefix

\* a < b for two strings: by code point at the first difference, a proper
\* prefix first
RECURSIVE StrLess(_, _)
StrLess(a, b) ==
    IF b = <<>> THEN FALSE
    ELSE IF a = <<>> THEN TRUE
    ELSE IF Head(a) # Head(b) THEN Head(a) < Head(b)
    ELSE StrLess(Tail(a), Tail(b))

\* int(s) for a string of decimal digits; anything else makes int() raise
\* (signs, blanks and underscores, which int() also takes, are left out)
IsDigits(s) == s # <<>> /\ \A i \in 1..Len(s) : s[i] \in 48..57
RECURSIVE ParseInt(_)
ParseInt(s) ==
    IF s = <<>> THEN 0 ELSE ParseInt(SubSeq(s, 1, Len(s) - 1)) * 10 + (s[Len(s)] - 48)

Str_COM == <<67, 79, 77>>
Str_ttyACM == <<47, 100, 101, 118, 47, 116, 116, 121, 65, 67, 77>>
Str_ttyUSB == <<47, 100, 101, 118, 47, 116, 116, 121, 85, 83, 66>>

\* sort_key(p): for the platform hint "windows" (not COM, number, name), for
\* any other hint (not ttyACM/ttyUSB, name, and a number that plays no part)
sort_key(p, platform_hint) ==
    LET dev == p.device IN
    IF platform_hint = "windows"
    THEN [other |-> ~StartsWith(Upper(dev), Str_COM),
          n     |-> IF StartsWith(Upper(dev), Str_COM) /\ IsDigits(SubSeq(dev, 4, Len(dev)))
                    THEN ParseInt(SubSeq(dev, 4, Len(dev)))
                    ELSE 9999,
          dev   |-> dev]
    ELSE [other |-> ~(StartsWith(dev, Str_ttyACM) \/ StartsWith(dev, Str_ttyUSB)),
          n     |-> 0,
          dev   |-> dev]

\* a sort by the device name alone
KeyLess_NameOnly(k1, k2) == StrLess(k1.dev, k2.dev)

\* k1 < k2 for two keys, as Python compares tuples (False < True)
KeyLess(k1, k2) ==
    \/ ~k1.other /\ k2.other
    \/ k1.other = k2.other /\ k1.n < k2.n
    \/ k1.other = k2.other /\ k1.n = k2.n /\ StrLess(k1.dev, k2.dev)

\* ports.sort(key=sort_key): a stable sort, here by insertion
RECURSIVE Insert(_, _, _)
Insert(sorted, p, hint) ==
    IF sorted = <<>> THEN <<p>>
    ELSE IF KeyLess(sort_key(p, hint), sort_key(Head(sorted), hint))
         THEN <<p>> \o sorted
         ELSE <<Head(sorted)>> \o Insert(Tail(sorted), p, hint)

RECURSIVE SortPorts(_, _)
SortPorts(ports, hint) ==
    IF ports = <<>> THEN <<>>
    ELSE Insert(SortPorts(SubSeq(ports, 1, Len(ports) - 1), hint), ports[Len(ports)], hint)

\* vid_ok and pid_ok and product_ok and manuf_ok, the hints already in lower case
PortMatches(p, vid, pid, product_hint, manufacturer_hint) ==
    /\ (vid = NoneId) \/ (p.vid = vid)
    /\ (pid = NoneId) \/ (p.pid = pid)
    /\ product_hint = <<>> \/ Contains(Lower(p.product), product_hint)
    /\ manufacturer_hint = <<>> \/ Contains(Lower(p.manufacturer), manufacturer_hint)

\* for p in ports: the device of the first port that matches, <<>> for None
RECURSIVE FirstMatch(_, _, _, _, _)
FirstMatch(ports, vid, pid, product_hint, manufacturer_hint) ==
    IF ports = <<>> THEN <<>>
    ELSE IF PortMatches(Head(ports), vid, pid, product_hint, manufacturer_hint)
         THEN Head(ports).device
         ELSE FirstMatch(Tail(ports), vid, pid, product_hint, manufacturer_hint)

\* an explicit port that is returned only if it is listed
find_pico_port_Listed(preferred_port, vid, pid, product_hint, manufacturer_hint, platform_hint, comports) ==
    IF preferred_port # <<>> /\ \E i \in 1..Len(comports) : comports[i].device = preferred_port
    THEN [port |-> preferred_port, listed |-> TRUE]
    ELSE [port |-> FirstMatch(SortPorts(comports, platform_hint), vid, pid,
                              Lower(product_hint), Lower(manufacturer_hint)),
          listed |-> TRUE]

\* find_pico_port(): the port it returns and whether it called comports()
find_pico_port(preferred_port, vid, pid, product_hint, manufacturer_hint, platform_hint, comports) ==
    IF preferred_port # <<>>
    THEN [port |-> preferred_port, listed |-> FALSE]
    ELSE [port |-> FirstMatch(SortPorts(comports, platform_hint), vid, pid,
                              Lower(product_hint), Lower(manufacturer_hint)),
          listed |-> TRUE]

\* _get_port(): a vid or pid of 0 on the command line stands for None
get_port(args, comports) ==
    find_pico_port(args.port,
                   IF args.vid = 0 THEN NoneId ELSE args.vid,
                   IF args.pid = 0 THEN NoneId ELSE args.pid,
                   args.product, args.manufacturer, args.platform, comports)

\* the serial ports the operating system may list
PortPool ==
    { [device |-> <<67, 79, 77, 49, 48>>, vid |-> 11914, pid |-> 10,
       product |-> <<80, 105, 99, 111>>, manufacturer |-> <<82, 80, 105>>],
      [device |-> <<67, 79, 77, 51>>, vid |-> 1027, pid |-> 24577,
       product |-> <<85, 65, 82, 84>>, manufacturer |-> <<70, 84, 68, 73>>],
      [device |-> <<99, 111, 109, 52>>, vid |-> 11914, pid |-> 5,
       product |-> <<80, 73, 67, 79, 32, 98, 111, 97, 114, 100>>, manufacturer |-> <<>>],
      [device |-> <<47, 100, 101, 118, 47, 116, 116, 121, 65, 67, 77, 48>>, vid |-> 11914, pid |-> 10,
       product |-> <<80, 105, 99, 111>>, manufacturer |-> <<82, 80, 105>>],
      [device |-> <<47, 100, 101, 118, 47, 116, 116, 121, 85, 83, 66, 48>>, vid |-> 1027, pid |-> 24577,
       product |-> <<85, 65, 82, 84>>, manufacturer |-> <<70, 84, 68, 73>>],
      [device |-> <<47, 100, 101, 118, 47, 116, 116, 121, 65, 77, 65, 48>>, vid |-> NoneId, pid |-> NoneId,
       product |-> <<>>, manufacturer |-> <<>>] }

\* what comports() may return: up to MaxPorts ports of the pool in any order
PortLists ==
    {s \in SeqsUpTo(PortPool, MaxPorts) : \A i, j \in 1..Len(s) : i # j => s[i] # s[j]}

\* the command lines: --port, --vid, --pid, --product, --manufacturer,
\* --platform
ArgSets ==
    [port : {<<>>, <<47, 100, 101, 118, 47, 116, 116, 121, 65, 67, 77, 51>>},
     vid : {0, 11914, 1027},
     pid : {0, 10},
     product : {<<>>, <<80, 73, 67, 79>>, <<117, 97, 114, 116>>},
     manufacturer : {<<>>, <<114, 112, 105>>},
     platform : {"windows", "linux"}]

NoQuery == [args |-> <<>>, comports |-> <<>>, result |-> <<>>, done |-> FALSE]

(***************************************************************************)
(* Drive location: _find_pico_drive() of serial_reader.py.                 *)
(***************************************************************************)
\* PICO_DRIVE_LABEL (imported from config but not set there; "RPI-RP2" is the
\* default label of find_pico_drive in test.py)
PICO_DRIVE_LABEL == <<82, 80, 73, 45, 82, 80, 50>>
Str_media == <<47, 109, 101, 100, 105, 97>>
Str_run_media == <<47, 114, 117, 110, 47, 109, 101, 100, 105, 97>>
Str_fat == <<102, 97, 116>>

\* the test on one partition that returns part.mountpoint: the volume label on
\* Windows, the label in the device or mount path, or FAT under a media root
PartIsTaken(part, system) ==
    \/ /\ system = "Windows"
       /\ part.volume # <<>>
       /\ Contains(Lower(part.volume), Lower(PICO_DRIVE_LABEL))
    \/ Contains(Lower(part.device), Lower(PICO_DRIVE_LABEL))
    \/ Contains(Lower(part.mountpoint), Lower(PICO_DRIVE_LABEL))
    \/ /\ part.mountpoint # <<>>
       /\ Contains(part.mountpoint, Str_media) \/ Contains(part.mountpoint, Str_run_media)
       /\ part.fstype # <<>>
       /\ StartsWith(Lower(part.fstype), Str_fat)

\* _find_pico_drive(): the mount point of the first partition, in the order of
\* psutil.disk_partitions(), that passes the test; <<>> for None
RECURSIVE find_pico_drive(_, _)
find_pico_drive(parts, system) ==
    IF parts = <<>> THEN <<>>
    ELSE IF PartIsTaken(Head(parts), system)
         THEN Head(parts).mountpoint
         ELSE find_pico_drive(Tail(parts), system)

\* the mounted partitions psutil.disk_partitions() may list on a system; label
\* is the volume label the partition really has, volume what
\* GetVolumeInformationW gives (Windows only)
PartPool(system) ==
    IF system = "Windows"
    THEN { [device |-> <<69, 58, 92>>, mountpoint |-> <<69, 58, 92>>, fstype |-> <<70, 65, 84>>,
            volume |-> <<82, 80, 73, 45, 82, 80, 50>>, label |-> <<82, 80, 73, 45, 82, 80, 50>>],
           [device |-> <<68, 58, 92>>, mountpoint |-> <<68, 58, 92>>, fstype |-> <<78, 84, 70, 83>>,
            volume |-> <<68, 97, 116, 97>>, label |-> <<68, 97, 116, 97>>],
           [device |-> <<70, 58, 92>>, mountpoint |-> <<70, 58, 92>>, fstype |-> <<70, 65, 84, 51, 50>>,
            volume |-> <<>>, label |-> <<>>] }
    ELSE { [device |-> <<47, 100, 101, 118, 47, 115, 100, 97, 49>>, mountpoint |-> <<47, 109, 101, 100, 105, 97, 47, 112, 105, 47, 82, 80, 73, 45, 82, 80, 50>>, fstype |-> <<118, 102, 97, 116>>,
            volume |-> <<>>, label |-> <<82, 80, 73, 45, 82, 80, 50>>],
           [device |-> <<47, 100, 101, 118, 47, 115, 100, 98, 49>>, mountpoint |-> <<47, 109, 101, 100, 105, 97, 47, 112, 105, 47, 83, 84, 73, 67, 75>>, fstype |-> <<118, 102, 97, 116>>,
            volume |-> <<>>, label |-> <<83, 84, 73, 67, 75>>],
           [device |-> <<47, 100, 101, 118, 47, 114, 111, 111, 116>>, mountpoint |-> <<47>>, fstype |-> <<101, 120, 116, 52>>,
            volume |-> <<>>, label |-> <<114, 111, 111, 116, 102, 115>>],
           [device |-> <<47, 100, 101, 118, 47, 115, 100, 99, 49>>, mountpoint |-> <<47, 109, 110, 116, 47, 114, 112, 105, 45, 114, 112, 50>>, fstype |-> <<118, 102, 97, 116>>,
            volume |-> <<>>, label |-> <<82, 80, 73, 45, 82, 80, 50>>] }

\* what psutil.disk_partitions() may return
PartLists(system) ==
    {s \in SeqsUpTo(PartPool(system), MaxParts) :
        \A i, j \in 1..Len(s) : i # j => s[i] # s[j]}

NoSearch == [system |-> "", parts |-> <<>>, unmounted |-> FALSE, result |-> <<>>,
             done |-> FALSE]

(***************************************************************************)
(* The recorder: FileRecorder of log_manager.py. A file is named by its    *)
(* date folder and its session number; what was written is kept as the     *)
(* sequence of writes, each with the file it went to.                      *)
(***************************************************************************)
DATA_LINE_PREFIX == <<68>>

\* self.cur_file is None
NoFile == [date |-> 0, idx |-> 0]

SetMax(S) == CHOOSE x \in S : \A y \in S : y <= x

\* _get_next_session_index(): existing is the set of numbers of the session and
\* data files found in the folders of the current date
get_next_session_index(existing) ==
    IF existing # {} THEN SetMax(existing) + 1 ELSE 1

\* _roll_session(): the files of the current session index are opened in place
\* of the open ones, the data file only when a data directory is configured
roll_session(r) ==
    [r EXCEPT !.cur_file = [date |-> r.cur_date, idx |-> r.session_index],
              !.cur_data_file = IF r.data_dir
                                THEN [date |-> r.cur_date, idx |-> r.session_index]
                                ELSE r.cur_data_file]

\* _maybe_roll_date(): on a new date the index is taken from the new folder
\* and the session files are opened there
maybe_roll_date(r, today, existing) ==
    IF today # r.cur_date
    THEN roll_session([r EXCEPT !.cur_date = today,
                                !.session_index = get_next_session_index(existing)])
    ELSE r

\* a marker line that always moves on to the next index
NextIndexOnMarker_Always(r) == r.session_index + 1

\* if self.cur_file is not None: self.session_index += 1
NextIndexOnMarker(r) ==
    IF r.cur_file # NoFile THEN r.session_index + 1 ELSE r.session_index

\* write_line(line) called when the date is today and, should the date folder
\* be scanned, existing are the session numbers found there
write_line(r0, line, today, existing) ==
    LET r == maybe_roll_date(r0, today, existing) IN
    IF r.session_marker # <<>> /\ Contains(line, r.session_marker)
    THEN roll_session([r EXCEPT !.session_index = NextIndexOnMarker(r)])
    ELSE LET r1 == IF r.cur_file = NoFile THEN roll_session(r) ELSE r
             r2 == [r1 EXCEPT !.log = Append(@, [file |-> r1.cur_file, line |-> line])]
         IN  IF r2.data_dir /\ StartsWith(line, DATA_LINE_PREFIX)
             THEN LET r3 == IF r2.cur_data_file = NoFile
                            THEN [r2 EXCEPT !.cur_data_file =
                                     [date |-> r2.cur_date, idx |-> r2.session_index]]
                            ELSE r2
                  IN  [r3 EXCEPT !.data = Append(@, [file |-> r3.cur_data_file,
                                                     line |-> line])]
             ELSE r2

\* close()
close(r) == [r EXCEPT !.cur_file = NoFile, !.cur_data_file = NoFile]

\* the lines the recorder is given: the empty line, a, D, Da, aD, S and DS,
\* where S stands for the session marker and D is the data prefix
RecLines == {<<>>, <<97>>, <<68>>, <<68, 97>>, <<97, 68>>, <<83>>, <<68, 83>>}

ExistingSets == SUBSET (1..MaxExisting)

\* FileRecorder.__init__ on day 1, with given the lines write_line was called
\* with so far and closed whether close() was called
NewRecorder(data_dir, session_marker, existing) ==
    [data_dir |-> data_dir, session_marker |-> session_marker, cur_date |-> 1,
     session_index |-> get_next_session_index(existing),
     cur_file |-> NoFile, cur_data_file |-> NoFile,
     log |-> <<>>, data |-> <<>>, given |-> <<>>, closed |-> FALSE]

NoRec == NewRecorder(FALSE, DEFAULT_SESSION_MARKER, {})

(***************************************************************************)
(* The two readers: SerialReaderThread of serial_reader.py without upload  *)
(* requests and SerialReaderThread of pico_log_recorder.py, each as the    *)
(* function that takes the reader from one loop head or call of the serial *)
(* library to the next. A reader is its position, its locals, whether its  *)
(* connection is open, the opens, writes and closes it made (io), the      *)
(* lines it put on the queue (out) and the backoff sleeps it made.         *)
(***************************************************************************)
\* config.READY_MESSAGE
READY_MESSAGE == "::RPI-ZERO-LOG::READY"
\* the literals of pico_log_recorder.py: the ready message, the marker
\* (shortened to "S" like config's), 0.5 s and 5.0 s in 1/128 s
SaReadyMessage == "::RPI-ZERO-LOG::READY"
SaSessionMarker == <<83>>
SaInitialBackoff == 64
SaMaxBackoff == 640

\* the bytes the device sends in the two-reader specification
EqBytes == {LF, CR, 83}

NewReader(b) ==
    [pc |-> "top", port |-> NoPort, buf |-> <<>>, backoff |-> b, open |-> FALSE,
     io |-> <<>>, out |-> <<>>, slept |-> 0]

\* with serial.Serial(port, ...) as ser: buf = bytearray(); backoff reset
ReaderOpen(r, b) ==
    [r EXCEPT !.open = TRUE, !.io = Append(@, <<"open", r.port>>), !.buf = <<>>,
              !.backoff = b, !.pc = "hs"]

\* ser.write(ready_msg) returned
ReaderWrite(r, msg) == [r EXCEPT !.io = Append(@, <<"write", msg>>), !.pc = "hs_read"]

\* the with block is left: the connection is closed
ReaderClose(r) == [r EXCEPT !.open = FALSE, !.io = Append(@, <<"close", r.port>>)]

\* print("Disconnected, retrying..."); time.sleep(backoff); the next backoff
ReaderRetry(r, next) ==
    [r EXCEPT !.slept = @ + 1, !.backoff = next, !.pc = "top"]

\* run(), _perform_handshake() and _read_loop() of serial_reader.py with
\* upload_event never set
SerialReaderStep(r, stop, ev) ==
    CASE r.pc = "top" ->
            IF stop THEN [r EXCEPT !.pc = "done"]
            ELSE IF ev.kind # "port" \/ ev.port = NoPort THEN r
            ELSE [r EXCEPT !.port = ev.port, !.pc = "open"]
      [] r.pc = "open" ->
            IF ev.kind # "open" THEN r
            ELSE IF ev.ok THEN ReaderOpen(r, INITIAL_BACKOFF)
            ELSE ReaderRetry(r, NextBackoff(r.backoff))
      [] r.pc = "hs" ->
            IF stop THEN [ReaderClose(r) EXCEPT !.pc = "top"]
            ELSE IF ev.kind # "write" THEN r
            ELSE IF ev.ok THEN ReaderWrite(r, READY_MESSAGE)
            ELSE ReaderRetry(ReaderClose(r), NextBackoff(r.backoff))
      [] r.pc = "hs_read" ->
            IF ev.kind # "read" THEN r
            ELSE IF ev.res = "error"
            THEN ReaderRetry(ReaderClose(r), NextBackoff(r.backoff))
            ELSE IF ev.res = "empty" THEN [r EXCEPT !.pc = "hs"]
            ELSE LET s == HandshakeScan(r.buf \o ev.chunk) IN
                 IF s.found
                 THEN [r EXCEPT !.buf = s.buf, !.out = Append(@, s.text), !.pc = "rl"]
                 ELSE [r EXCEPT !.buf = s.buf, !.pc = "hs"]
      [] r.pc = "rl" ->
            IF stop THEN ReaderRetry(ReaderClose(r), NextBackoff(r.backoff))
            ELSE IF ev.kind # "read" THEN r
            ELSE IF ev.res = "error"
            THEN ReaderRetry(ReaderClose(r), NextBackoff(r.backoff))
            ELSE IF ev.res = "empty" THEN r
            ELSE LET d == ProcessChunk(r.buf, ev.chunk) IN
                 [r EXCEPT !.buf = d.buf, !.out = @ \o d.lines]
      [] OTHER -> r

\* a strip that leaves the carriage return
SaStripCR_Never(raw) == raw

\* if raw.endswith(b"\r"): raw = raw[:-1], in pico_log_recorder.py
SaStripCR(raw) ==
    IF Len(raw) > 0 /\ raw[Len(raw)] = CR THEN SubSeq(raw, 1, Len(raw) - 1) ELSE raw

\* backoff = min(5.0, backoff * 1.5)
SaNextBackoff(b) == Min(SaMaxBackoff, (b * 3) \div 2)

\* the inner loop of the handshake of pico_log_recorder.py
RECURSIVE SaHandshakeScan(_)
SaHandshakeScan(buf) ==
    LET nl == Find(buf) IN
    IF nl = 0 THEN [found |-> FALSE, text |-> <<>>, buf |-> buf]
    ELSE LET text == Decode(SaStripCR(SubSeq(buf, 1, nl - 1))) IN
         IF Contains(text, SaSessionMarker)
         THEN [found |-> TRUE, text |-> text, buf |-> Rest(buf, nl)]
         ELSE SaHandshakeScan(Rest(buf, nl))

\* the inner loop of the reading loop of pico_log_recorder.py
RECURSIVE SaDrain(_, _)
SaDrain(buf, lines) ==
    LET nl == Find(buf) IN
    IF nl = 0 THEN [lines |-> lines, buf |-> buf]
    ELSE SaDrain(Rest(buf, nl), Append(lines, Decode(SaStripCR(SubSeq(buf, 1, nl - 1)))))

\* run() of pico_log_recorder.py: after the handshake loop, whatever ended it,
\* comes the reading loop, and after the with block the sleep
StandaloneReaderStep(r, stop, ev) ==
    CASE r.pc = "top" ->
            IF stop THEN [r EXCEPT !.pc = "done"]
            ELSE IF ev.kind # "port" \/ ev.port = NoPort THEN r
            ELSE [r EXCEPT !.port = ev.port, !.pc = "open"]
      [] r.pc = "open" ->
            IF ev.kind # "open" THEN r
            ELSE IF ev.ok THEN ReaderOpen(r, SaInitialBackoff)
            ELSE ReaderRetry(r, SaNextBackoff(r.backoff))
      [] r.pc = "hs" ->
            IF stop THEN ReaderRetry(ReaderClose(r), SaNextBackoff(r.backoff))
            ELSE IF ev.kind # "write" THEN r
            ELSE IF ev.ok THEN ReaderWrite(r, SaReadyMessage)
            ELSE ReaderRetry(ReaderClose(r), SaNextBackoff(r.backoff))
      [] r.pc = "hs_read" ->
            IF ev.kind # "read" THEN r
            ELSE IF ev.res = "error"
            THEN ReaderRetry(ReaderClose(r), SaNextBackoff(r.backoff))
            ELSE IF ev.res = "empty" THEN [r EXCEPT !.pc = "hs"]
            ELSE LET s == SaHandshakeScan(r.buf \o ev.chunk) IN
                 IF s.found
                 THEN [r EXCEPT !.buf = s.buf, !.out = Append(@, s.text), !.pc = "rl"]
                 ELSE [r EXCEPT !.buf = s.buf, !.pc = "hs"]
      [] r.pc = "rl" ->
            IF stop THEN ReaderRetry(ReaderClose(r), SaNextBackoff(r.backoff))
            ELSE IF ev.kind # "read" THEN r
            ELSE IF ev.res = "error"
            THEN ReaderRetry(ReaderClose(r), SaNextBackoff(r.backoff))
            ELSE IF ev.res = "empty" THEN r
            ELSE LET d == SaDrain(r.buf \o ev.chunk, <<>>) IN
                 [r EXCEPT !.buf = d.buf, !.out = @ \o d.lines]
      [] OTHER -> r

Event(k, p, ok, res, c) == [kind |-> k, port |-> p, ok |-> ok, res |-> res, chunk |-> c]

\* what the port getter or the serial library may answer a reader at r
EqEvents(r) ==
    CASE r.pc = "top" -> {Event("port", p, TRUE, "", <<>>) : p \in PortNames \cup {NoPort}}
      [] r.pc = "open" -> {Event("open", NoPort, ok, "", <<>>) : ok \in BOOLEAN}
      [] r.pc = "hs" -> {Event("write", NoPort, ok, "", <<>>) : ok \in BOOLEAN}
      [] r.pc \in {"hs_read", "rl"} ->
            {Event("read", NoPort, TRUE, res, <<>>) : res \in {"empty", "error"}}
            \cup {Event("read", NoPort, TRUE, "chunk", c) :
                     c \in {x \in SeqsUpTo(EqBytes, MaxChunk) :
                              Len(x) >= 1 /\ Len(r.buf) + Len(x) <= MaxBuf}}
      [] OTHER -> {}

NoEq == [m |-> NewReader(INITIAL_BACKOFF), s |-> NewReader(SaInitialBackoff),
         stop |-> FALSE, n |-> 0]

(***************************************************************************)
(* State.                                                                  *)
(***************************************************************************)
VARIABLES
    pc,             \* where the worker thread is in run() and what it calls
    port,           \* run(): the port the port getter returned
    ser_is_open,    \* ser.is_open of the data connection of the with block
    trig_is_open,   \* trig.is_open of the 1200-baud handle
    buf,            \* run(): the accumulator, a bytearray
    backoff,        \* run(): the current delay
    found_marker,   \* _perform_handshake(): found_marker
    text,           \* the line out_q.put(text) is handing over
    stop_evt,       \* self.stop_evt
    upload_event,   \* self.upload_event
    out_q,          \* the queue.Queue between worker and consumer
    mount_point,    \* _handle_upload(): mount_point
    uf2_files,      \* _handle_upload(): the images glob.glob listed
    uf2_idx,        \* _handle_upload(): where the for loop is in uf2_files
    attempt,        \* _handle_upload(): attempt of the inner loop
    polls,          \* _wait_for_uf2_drive(): polls made so far
    mpc,            \* where the main thread is in run_threads()
    line,           \* run_threads(): the line dequeued and not yet recorded
    fr,             \* the framing specification: a byte stream and its feeding
    pr,             \* the port-resolution specification: a call of _get_port()
    dl,             \* the drive-location specification: a call of _find_pico_drive()
    rc,             \* the recorder specification: a FileRecorder and what it wrote
    eq,             \* the two-reader specification: both SerialReaderThreads, fed alike
    \* history variables: they record what happened and steer nothing but
    \* the bounds on what the device and the operating system do
    openHandles,    \* open OS handles on the device port
    epoch,          \* successful opens so far: the current connection
    got,            \* connection and rank of the item the consumer dequeued last
    nlTotal,        \* line feeds received on the current connection
    lastOp,         \* the last operation on a serial handle of this connection
    nSleeps,        \* backoff sleeps since the last successful open
    slept,          \* the delay of the backoff sleep in progress
    leftVia,        \* how the connection attempt before that sleep ended
    outcome,        \* what _handle_upload reported before it ended
    logCopied,      \* images it reported as copied
    logFailed,      \* images it reported as failed
    onDrive,        \* images shutil.copy put on the drive
    nAttempts,      \* calls of shutil.copy it made
    globbed,        \* whether it listed the upload folder
    req,            \* where the worker was when the pending upload was requested
    nReady,         \* ready messages written in the handshake in progress
    rxTail,         \* bytes received on this connection after its last line feed
    dropped,        \* bytes of the old accumulator that the open just made let go
    carried,        \* complete lines the handshake left in buf, until _read_loop drained it
    asked,          \* whether _handle_upload called the port getter
    nWaits          \* sleeps of UF2_COPY_WAIT it made

vars == <<pc, port, ser_is_open, trig_is_open, buf, backoff, found_marker, text,
          stop_evt, upload_event, out_q, mount_point, uf2_files, uf2_idx, attempt,
          polls, mpc, line, fr, pr, dl, rc, eq, got, openHandles, epoch, nlTotal, lastOp, nSleeps, slept, leftVia,
          outcome, logCopied, logFailed, onDrive, nAttempts, globbed, req, nReady,
          rxTail, dropped, carried, asked, nWaits>>

\* the variables of the link worker and its consumer
linkVars == <<pc, port, ser_is_open, trig_is_open, buf, backoff, found_marker, text,
              stop_evt, upload_event, out_q, mount_point, uf2_files, uf2_idx, attempt,
              polls, mpc, line, got, openHandles, epoch, nlTotal, lastOp, nSleeps, slept,
              leftVia, outcome, logCopied, logFailed, onDrive, nAttempts, globbed, req,
              nReady, rxTail, dropped, carried, asked, nWaits>>

\* an item of the queue: the decoded line, with the connection it came from
\* and the rank, among the line feeds of that connection, of the one that ended it
NoItem == [text |-> <<>>, ep |-> 0, n |-> 0]
Item(t, e, k) == [text |-> t, ep |-> e, n |-> k]

\* where _handle_upload is: the worker is Flashing
UploadPcs == {"up_close", "up_trig", "up_trig_close", "up_wait", "up_glob", "up_copy",
              "up_finish"}

\* the state of the link worker at a position of run()
Phase(p) ==
    IF p \in UploadPcs THEN "flashing"
    ELSE IF p \in {"rl_loop", "rl_scan", "rl_put"} THEN "streaming"
    ELSE IF p \in {"hs_loop", "hs_read", "hs_scan", "hs_put"} THEN "handshaking"
    ELSE IF p = "open" THEN "connecting"
    ELSE "disconnected"

\* no request on record; a record is the phase and the connection in which
\* the pending request was made, and whether one more came while Flashing
NoReq == [ph |-> "none", ep |-> 0, dup |-> FALSE]

NoFeed == [stream |-> <<>>, fed |-> 0, nchunks |-> 0, buf |-> <<>>, lines |-> <<>>]

\* the state after construction, without the framing specification's part
InitLink ==
    /\ pc = "run_loop"
    /\ port = NoPort
    /\ ser_is_open = FALSE
    /\ trig_is_open = FALSE
    /\ buf = <<>>
    /\ backoff = INITIAL_BACKOFF
    /\ found_marker = FALSE
    /\ text = NoItem
    /\ stop_evt = FALSE
    /\ upload_event = FALSE
    /\ out_q = <<>>
    /\ mount_point = NoMount
    /\ uf2_files = <<>>
    /\ uf2_idx = 1
    /\ attempt = 0
    /\ polls = 0
    /\ mpc = "get"
    /\ line = NoItem
    /\ got = <<0, 0>>
    /\ openHandles = 0
    /\ epoch = 0
    /\ nlTotal = 0
    /\ lastOp = "none"
    /\ nSleeps = 0
    /\ slept = 0
    /\ leftVia = "none"
    /\ outcome = "none"
    /\ logCopied = {}
    /\ logFailed = {}
    /\ onDrive = {}
    /\ nAttempts = 0
    /\ globbed = FALSE
    /\ req = NoReq
    /\ nReady = 0
    /\ rxTail = <<>>
    /\ dropped = 0
    /\ carried = 0
    /\ asked = FALSE
    /\ nWaits = 0

Init ==
    /\ InitLink /\ fr = NoFeed /\ pr = NoQuery /\ dl = NoSearch /\ rc = NoRec
    /\ eq = NoEq

(***************************************************************************)
(* Operations on the serial handles and the queue, and what the            *)
(* environment may do within the bounds.                                   *)
(***************************************************************************)
\* Serial.close(): releases the OS handle when the object is open
HandlesAfterClose(n, isOpen) == IF isOpen THEN n - 1 ELSE n

\* a data connection that is left open
WithExit_NoClose ==
    /\ ser_is_open' = ser_is_open
    /\ openHandles' = openHandles
    /\ lastOp' = lastOp

\* the with block of run() is left, or ser.close() is called: the data
\* connection is closed
WithExit ==
    /\ ser_is_open' = FALSE
    /\ openHandles' = HandlesAfterClose(openHandles, ser_is_open)
    /\ lastOp' = IF ser_is_open THEN "close" ELSE lastOp

\* queue.Queue.put(item) once it has found room: first in, first out
Enqueue(q, item) == Append(q, item)

\* the chunks ser.read() may return on this connection within the bounds
Chunks ==
    {c \in SeqsUpTo(LinkBytes, MaxChunk) :
        /\ Len(c) >= 1
        /\ Len(buf) + Len(c) <= MaxBuf
        /\ nlTotal + CountLF(c) <= MaxLines}

\* whether the device may still be opened, and whether an open may still fail
CanOpen == epoch < MaxEpochs
CanFail == nSleeps < (IF epoch = 0 THEN MaxFails ELSE MaxRefails)

\* what one upload can find in the upload folder: glob.glob's list
ImageLists ==
    {s \in SeqsUpTo(ImageNames, Cardinality(ImageNames)) :
        \A i, j \in 1..Len(s) : i # j => s[i] # s[j]}

\* the procedure has returned: break in _read_loop, and the with block of
\* run() is left
UploadLeaves ==
    /\ WithExit
    /\ leftVia' = "upload"
    /\ pc' = "disconnected"

\* the locals and the report of the procedure are gone
ForgetUpload ==
    /\ mount_point' = NoMount
    /\ uf2_files' = <<>>
    /\ uf2_idx' = 1
    /\ attempt' = 0
    /\ polls' = 0
    /\ outcome' = "none"
    /\ logCopied' = {} /\ logFailed' = {} /\ onDrive' = {}
    /\ nAttempts' = 0
    /\ globbed' = FALSE
    /\ asked' = FALSE
    /\ nWaits' = 0

(***************************************************************************)
(* run(): the reconnect loop.                                              *)
(***************************************************************************)

\* while not self.stop_evt.is_set() fails: run() returns
RunStop ==
    /\ pc = "run_loop"
    /\ stop_evt
    /\ pc' = "done"
    /\ UNCHANGED <<port, ser_is_open, trig_is_open, buf, backoff, found_marker, text,
                   stop_evt, upload_event, out_q, mount_point, uf2_files, uf2_idx, attempt,
                   polls, mpc, line, got, openHandles, epoch, nlTotal, lastOp, nSleeps,
                   slept, leftVia, outcome, logCopied, logFailed, onDrive, nAttempts,
                   globbed, req, nReady, rxTail, dropped, carried, asked, nWaits, fr, pr,
                   dl, rc, eq>>

\* port = self.port_getter(); if not port: the retry sleep, else the open
RunLoop ==
    /\ pc = "run_loop"
    /\ ~stop_evt
    /\ \E p \in (IF CanOpen \/ CanFail THEN PortNames ELSE {}) \cup {NoPort} :
          /\ port' = p
          /\ pc' = IF p = NoPort THEN "sleep_retry" ELSE "open"
    /\ UNCHANGED <<ser_is_open, trig_is_open, buf, backoff, found_marker, text, stop_evt,
                   upload_event, out_q, mount_point, uf2_files, uf2_idx, attempt, polls,
                   mpc, line, got, openHandles, epoch, nlTotal, lastOp, nSleeps, slept,
                   leftVia, outcome, logCopied, logFailed, onDrive, nAttempts, globbed,
                   req, nReady, rxTail, dropped, carried, asked, nWaits, fr, pr, dl, rc, eq>>

\* time.sleep(RECONNECT_RETRY_INTERVAL); continue
SleepRetry ==
    /\ pc = "sleep_retry"
    /\ pc' = "run_loop"
    /\ UNCHANGED <<port, ser_is_open, trig_is_open, buf, backoff, found_marker, text,
                   stop_evt, upload_event, out_q, mount_point, uf2_files, uf2_idx, attempt,
                   polls, mpc, line, got, openHandles, epoch, nlTotal, lastOp, nSleeps,
                   slept, leftVia, outcome, logCopied, logFailed, onDrive, nAttempts,
                   globbed, req, nReady, rxTail, dropped, carried, asked, nWaits, fr, pr,
                   dl, rc, eq>>

\* an open that forgets a pending upload request
OpenOk_DropsRequest ==
    /\ pc = "open"
    /\ CanOpen
    /\ ser_is_open' = TRUE
    /\ openHandles' = openHandles + 1
    /\ lastOp' = "open"
    /\ epoch' = epoch + 1
    /\ nlTotal' = 0
    /\ buf' = <<>>
    /\ backoff' = INITIAL_BACKOFF
    /\ nSleeps' = 0
    /\ found_marker' = FALSE
    /\ upload_event' = FALSE
    /\ nReady' = 0
    /\ rxTail' = <<>>
    /\ dropped' = Len(buf)
    /\ pc' = "hs_loop"
    /\ UNCHANGED <<port, trig_is_open, text, stop_evt, out_q, mount_point, uf2_files,
                   uf2_idx, attempt, polls, mpc, line, got, slept, leftVia, outcome,
                   logCopied, logFailed, onDrive, nAttempts, globbed, req, carried, asked,
                   nWaits, fr, pr, dl, rc, eq>>

\* an open that goes on with the accumulator of the connection before
OpenOk_KeepsBuf ==
    /\ pc = "open"
    /\ CanOpen
    /\ ser_is_open' = TRUE
    /\ openHandles' = openHandles + 1
    /\ lastOp' = "open"
    /\ epoch' = epoch + 1
    /\ nlTotal' = 0
    /\ backoff' = INITIAL_BACKOFF
    /\ nSleeps' = 0
    /\ found_marker' = FALSE
    /\ nReady' = 0
    /\ rxTail' = <<>>
    /\ dropped' = Len(buf)
    /\ pc' = "hs_loop"
    /\ UNCHANGED <<port, trig_is_open, buf, text, stop_evt, upload_event, out_q,
                   mount_point, uf2_files, uf2_idx, attempt, polls, mpc, line, got, slept,
                   leftVia, outcome, logCopied, logFailed, onDrive, nAttempts, globbed,
                   req, carried, asked, nWaits, fr, pr, dl, rc, eq>>

\* with serial.Serial(port, self.baud, ...) as ser: buf = bytearray();
\* backoff = INITIAL_BACKOFF; found_marker = False in _perform_handshake
OpenOk ==
    /\ pc = "open"
    /\ CanOpen
    /\ ser_is_open' = TRUE
    /\ openHandles' = openHandles + 1
    /\ lastOp' = "open"
    /\ epoch' = epoch + 1
    /\ nlTotal' = 0
    /\ buf' = <<>>
    /\ backoff' = INITIAL_BACKOFF
    /\ nSleeps' = 0
    /\ found_marker' = FALSE
    /\ nReady' = 0
    /\ rxTail' = <<>>
    /\ dropped' = Len(buf)
    /\ pc' = "hs_loop"
    /\ UNCHANGED <<port, trig_is_open, text, stop_evt, upload_event, out_q, mount_point,
                   uf2_files, uf2_idx, attempt, polls, mpc, line, got, slept, leftVia,
                   outcome, logCopied, logFailed, onDrive, nAttempts, globbed, req,
                   carried, asked, nWaits, fr, pr, dl, rc, eq>>

\* an open failure that nothing catches: the exception ends run()
OpenFail_Uncaught ==
    /\ pc = "open"
    /\ CanFail
    /\ leftVia' = "openfail"
    /\ pc' = "done"
    /\ UNCHANGED <<port, ser_is_open, trig_is_open, buf, backoff, found_marker, text,
                   stop_evt, upload_event, out_q, mount_point, uf2_files, uf2_idx, attempt,
                   polls, mpc, line, got, openHandles, epoch, nlTotal, lastOp, nSleeps,
                   slept, outcome, logCopied, logFailed, onDrive, nAttempts, globbed, req,
                   nReady, rxTail, dropped, carried, asked, nWaits, fr, pr, dl, rc, eq>>

\* serial.Serial(...) raises SerialException: print("Open failed ...")
OpenFail ==
    /\ pc = "open"
    /\ CanFail
    /\ leftVia' = "openfail"
    /\ pc' = "disconnected"
    /\ UNCHANGED <<port, ser_is_open, trig_is_open, buf, backoff, found_marker, text,
                   stop_evt, upload_event, out_q, mount_point, uf2_files, uf2_idx, attempt,
                   polls, mpc, line, got, openHandles, epoch, nlTotal, lastOp, nSleeps,
                   slept, outcome, logCopied, logFailed, onDrive, nAttempts, globbed, req,
                   nReady, rxTail, dropped, carried, asked, nWaits, fr, pr, dl, rc, eq>>

\* print("Disconnected, retrying..."); time.sleep(backoff) begins
Disconnected ==
    /\ pc = "disconnected"
    /\ slept' = backoff
    /\ nSleeps' = nSleeps + 1
    /\ ForgetUpload
    /\ req' = IF upload_event THEN [req EXCEPT !.dup = FALSE] ELSE NoReq
    /\ found_marker' = FALSE
    /\ lastOp' = "none"
    /\ pc' = "sleep_backoff"
    /\ UNCHANGED <<port, ser_is_open, trig_is_open, buf, backoff, text, stop_evt,
                   upload_event, out_q, mpc, line, got, openHandles, epoch, nlTotal,
                   leftVia, nReady, rxTail, dropped, carried, fr, pr, dl, rc, eq>>

\* a delay that grows by the factor without the cap
SleepBackoff_Uncapped ==
    /\ pc = "sleep_backoff"
    /\ backoff' = (backoff * 3) \div 2
    /\ slept' = 0
    /\ leftVia' = "none"
    /\ pc' = "run_loop"
    /\ UNCHANGED <<port, ser_is_open, trig_is_open, buf, found_marker, text, stop_evt,
                   upload_event, out_q, mount_point, uf2_files, uf2_idx, attempt, polls,
                   mpc, line, got, openHandles, epoch, nlTotal, lastOp, nSleeps, outcome,
                   logCopied, logFailed, onDrive, nAttempts, globbed, req, nReady, rxTail,
                   dropped, carried, asked, nWaits, fr, pr, dl, rc, eq>>

\* time.sleep(backoff) returns; backoff = min(MAX_BACKOFF, backoff * 1.5)
SleepBackoff ==
    /\ pc = "sleep_backoff"
    /\ backoff' = NextBackoff(backoff)
    /\ slept' = 0
    /\ leftVia' = "none"
    /\ pc' = "run_loop"
    /\ UNCHANGED <<port, ser_is_open, trig_is_open, buf, found_marker, text, stop_evt,
                   upload_event, out_q, mount_point, uf2_files, uf2_idx, attempt, polls,
                   mpc, line, got, openHandles, epoch, nlTotal, lastOp, nSleeps, outcome,
                   logCopied, logFailed, onDrive, nAttempts, globbed, req, nReady, rxTail,
                   dropped, carried, asked, nWaits, fr, pr, dl, rc, eq>>

(***************************************************************************)
(* _perform_handshake().                                                   *)
(***************************************************************************)

\* a handshake that stops writing after two ready messages
HsWrite_Limited ==
    /\ pc = "hs_loop"
    /\ ~stop_evt /\ ~found_marker
    /\ nReady < 2
    /\ lastOp' = "write_ready"
    /\ nReady' = Min(nReady + 1, MaxReady)
    /\ pc' = "hs_read"
    /\ dropped' = 0
    /\ UNCHANGED <<port, ser_is_open, trig_is_open, buf, backoff, found_marker, text,
                   stop_evt, upload_event, out_q, mount_point, uf2_files, uf2_idx, attempt,
                   polls, mpc, line, got, openHandles, epoch, nlTotal, nSleeps, slept,
                   leftVia, outcome, logCopied, logFailed, onDrive, nAttempts, globbed,
                   req, rxTail, carried, asked, nWaits, fr, pr, dl, rc, eq>>

\* while not stop and not found_marker: ser.write(ready_msg) goes through;
\* time.sleep(HANDSHAKE_SEND_INTERVAL) follows
HsWrite ==
    /\ pc = "hs_loop"
    /\ ~stop_evt /\ ~found_marker
    /\ lastOp' = "write_ready"
    /\ nReady' = Min(nReady + 1, MaxReady)
    /\ pc' = "hs_read"
    /\ dropped' = 0
    /\ UNCHANGED <<port, ser_is_open, trig_is_open, buf, backoff, found_marker, text,
                   stop_evt, upload_event, out_q, mount_point, uf2_files, uf2_idx, attempt,
                   polls, mpc, line, got, openHandles, epoch, nlTotal, nSleeps, slept,
                   leftVia, outcome, logCopied, logFailed, onDrive, nAttempts, globbed,
                   req, rxTail, carried, asked, nWaits, fr, pr, dl, rc, eq>>

\* ser.write or ser.read raises SerialException: it leaves the with block and
\* is caught in run(), which prints "Open failed ..."
HsError ==
    /\ (pc = "hs_loop" /\ ~stop_evt /\ ~found_marker) \/ pc = "hs_read"
    /\ WithExit
    /\ leftVia' = "hserr"
    /\ pc' = "disconnected"
    /\ nReady' = 0
    /\ dropped' = 0
    /\ UNCHANGED <<port, trig_is_open, buf, backoff, found_marker, text, stop_evt,
                   upload_event, out_q, mount_point, uf2_files, uf2_idx, attempt, polls,
                   mpc, line, got, epoch, nlTotal, nSleeps, slept, outcome, logCopied,
                   logFailed, onDrive, nAttempts, globbed, req, rxTail, carried, asked,
                   nWaits, fr, pr, dl, rc, eq>>

\* chunk = ser.read(...) returns b"" after the timeout
HsReadEmpty ==
    /\ pc = "hs_read"
    /\ lastOp' = "read"
    /\ pc' = "hs_loop"
    /\ UNCHANGED <<port, ser_is_open, trig_is_open, buf, backoff, found_marker, text,
                   stop_evt, upload_event, out_q, mount_point, uf2_files, uf2_idx, attempt,
                   polls, mpc, line, got, openHandles, epoch, nlTotal, nSleeps, slept,
                   leftVia, outcome, logCopied, logFailed, onDrive, nAttempts, globbed,
                   req, nReady, rxTail, dropped, carried, asked, nWaits, fr, pr, dl, rc, eq>>

\* chunk = ser.read(...) returns bytes: buf.extend(chunk)
HsReadChunk ==
    /\ pc = "hs_read"
    /\ \E chunk \in Chunks :
          /\ buf' = buf \o chunk
          /\ nlTotal' = nlTotal + CountLF(chunk)
          /\ rxTail' = AfterLastLF(rxTail \o chunk)
    /\ lastOp' = "read"
    /\ pc' = "hs_scan"
    /\ UNCHANGED <<port, ser_is_open, trig_is_open, backoff, found_marker, text, stop_evt,
                   upload_event, out_q, mount_point, uf2_files, uf2_idx, attempt, polls,
                   mpc, line, got, openHandles, epoch, nSleeps, slept, leftVia, outcome,
                   logCopied, logFailed, onDrive, nAttempts, globbed, req, nReady, dropped,
                   carried, asked, nWaits, fr, pr, dl, rc, eq>>

\* the inner loop: the complete lines are taken out of buf up to the first
\* that contains the marker, which sets found_marker
HsScan ==
    /\ pc = "hs_scan"
    /\ LET r == HandshakeScan(buf) IN
          /\ buf' = r.buf
          /\ found_marker' = r.found
          /\ text' = IF r.found
                     THEN Item(r.text, epoch, nlTotal - CountLF(r.buf))
                     ELSE text
          /\ pc' = IF r.found THEN "hs_put" ELSE "hs_loop"
          /\ carried' = IF r.found THEN CountLF(r.buf) ELSE 0
    /\ UNCHANGED <<port, ser_is_open, trig_is_open, backoff, stop_evt, upload_event, out_q,
                   mount_point, uf2_files, uf2_idx, attempt, polls, mpc, line, got,
                   openHandles, epoch, nlTotal, lastOp, nSleeps, slept, leftVia, outcome,
                   logCopied, logFailed, onDrive, nAttempts, globbed, req, nReady, rxTail,
                   dropped, asked, nWaits, fr, pr, dl, rc, eq>>

\* self.out_q.put(text) returns once the queue has room; break
HsPut ==
    /\ pc = "hs_put"
    /\ Len(out_q) < QueueCap
    /\ out_q' = Enqueue(out_q, text)
    /\ text' = NoItem
    /\ pc' = "hs_loop"
    /\ UNCHANGED <<port, ser_is_open, trig_is_open, buf, backoff, found_marker, stop_evt,
                   upload_event, mount_point, uf2_files, uf2_idx, attempt, polls, mpc,
                   line, got, openHandles, epoch, nlTotal, lastOp, nSleeps, slept, leftVia,
                   outcome, logCopied, logFailed, onDrive, nAttempts, globbed, req, nReady,
                   rxTail, dropped, carried, asked, nWaits, fr, pr, dl, rc, eq>>

\* a run() that goes on to _read_loop whatever the handshake returned
HsReturnTrue_Always ==
    /\ pc = "hs_loop"
    /\ found_marker \/ stop_evt
    /\ pc' = "rl_loop"
    /\ nReady' = 0
    /\ UNCHANGED <<port, ser_is_open, trig_is_open, buf, backoff, found_marker, text,
                   stop_evt, upload_event, out_q, mount_point, uf2_files, uf2_idx, attempt,
                   polls, mpc, line, got, openHandles, epoch, nlTotal, lastOp, nSleeps,
                   slept, leftVia, outcome, logCopied, logFailed, onDrive, nAttempts,
                   globbed, req, rxTail, dropped, carried, asked, nWaits, fr, pr, dl, rc,
                   eq>>

\* a run() that hands _read_loop an empty accumulator of its own
HsReturnTrue_FreshBuf ==
    /\ pc = "hs_loop"
    /\ found_marker
    /\ pc' = "rl_loop"
    /\ buf' = <<>>
    /\ nReady' = 0
    /\ UNCHANGED <<port, ser_is_open, trig_is_open, backoff, found_marker, text, stop_evt,
                   upload_event, out_q, mount_point, uf2_files, uf2_idx, attempt, polls,
                   mpc, line, got, openHandles, epoch, nlTotal, lastOp, nSleeps, slept,
                   leftVia, outcome, logCopied, logFailed, onDrive, nAttempts, globbed,
                   req, rxTail, dropped, carried, asked, nWaits, fr, pr, dl, rc, eq>>

\* the loop ends with found_marker: run() calls self._read_loop(ser, buf)
HsReturnTrue ==
    /\ pc = "hs_loop"
    /\ found_marker
    /\ pc' = "rl_loop"
    /\ nReady' = 0
    /\ UNCHANGED <<port, ser_is_open, trig_is_open, buf, backoff, found_marker, text,
                   stop_evt, upload_event, out_q, mount_point, uf2_files, uf2_idx, attempt,
                   polls, mpc, line, got, openHandles, epoch, nlTotal, lastOp, nSleeps,
                   slept, leftVia, outcome, logCopied, logFailed, onDrive, nAttempts,
                   globbed, req, rxTail, dropped, carried, asked, nWaits, fr, pr, dl, rc,
                   eq>>

\* a run() that takes break instead of continue when the handshake failed
HsReturnFalse_Sleeps ==
    /\ pc = "hs_loop"
    /\ stop_evt /\ ~found_marker
    /\ WithExit
    /\ leftVia' = "stop"
    /\ pc' = "disconnected"
    /\ nReady' = 0
    /\ dropped' = 0
    /\ UNCHANGED <<port, trig_is_open, buf, backoff, found_marker, text, stop_evt,
                   upload_event, out_q, mount_point, uf2_files, uf2_idx, attempt, polls,
                   mpc, line, got, epoch, nlTotal, nSleeps, slept, outcome, logCopied,
                   logFailed, onDrive, nAttempts, globbed, req, rxTail, carried, asked,
                   nWaits, fr, pr, dl, rc, eq>>

\* the loop ends on the stop signal without the marker: run() takes continue,
\* which leaves the with block and skips the sleep
HsReturnFalse ==
    /\ pc = "hs_loop"
    /\ stop_evt /\ ~found_marker
    /\ WithExit
    /\ pc' = "run_loop"
    /\ nReady' = 0
    /\ dropped' = 0
    /\ UNCHANGED <<port, trig_is_open, buf, backoff, found_marker, text, stop_evt,
                   upload_event, out_q, mount_point, uf2_files, uf2_idx, attempt, polls,
                   mpc, line, got, epoch, nlTotal, nSleeps, slept, leftVia, outcome,
                   logCopied, logFailed, onDrive, nAttempts, globbed, req, rxTail, carried,
                   asked, nWaits, fr, pr, dl, rc, eq>>

(***************************************************************************)
(* _read_loop().                                                           *)
(***************************************************************************)

\* while not self.stop_evt.is_set() fails: the loop and the with block end
RlStop ==
    /\ pc = "rl_loop"
    /\ stop_evt
    /\ WithExit
    /\ leftVia' = "stop"
    /\ pc' = "disconnected"
    /\ carried' = 0
    /\ UNCHANGED <<port, trig_is_open, buf, backoff, found_marker, text, stop_evt,
                   upload_event, out_q, mount_point, uf2_files, uf2_idx, attempt, polls,
                   mpc, line, got, epoch, nlTotal, nSleeps, slept, outcome, logCopied,
                   logFailed, onDrive, nAttempts, globbed, req, nReady, rxTail, dropped,
                   asked, nWaits, fr, pr, dl, rc, eq>>

\* ser.read raises SerialException: print("Read error ..."); break
RlReadError ==
    /\ pc = "rl_loop"
    /\ ~stop_evt /\ ~upload_event
    /\ WithExit
    /\ leftVia' = "readerr"
    /\ pc' = "disconnected"
    /\ carried' = 0
    /\ UNCHANGED <<port, trig_is_open, buf, backoff, found_marker, text, stop_evt,
                   upload_event, out_q, mount_point, uf2_files, uf2_idx, attempt, polls,
                   mpc, line, got, epoch, nlTotal, nSleeps, slept, outcome, logCopied,
                   logFailed, onDrive, nAttempts, globbed, req, nReady, rxTail, dropped,
                   asked, nWaits, fr, pr, dl, rc, eq>>

\* ser.read returns b"": continue
RlReadEmpty ==
    /\ pc = "rl_loop"
    /\ ~stop_evt /\ ~upload_event
    /\ lastOp' = "read"
    /\ UNCHANGED <<pc, port, ser_is_open, trig_is_open, buf, backoff, found_marker, text,
                   stop_evt, upload_event, out_q, mount_point, uf2_files, uf2_idx, attempt,
                   polls, mpc, line, got, openHandles, epoch, nlTotal, nSleeps, slept,
                   leftVia, outcome, logCopied, logFailed, onDrive, nAttempts, globbed,
                   req, nReady, rxTail, dropped, carried, asked, nWaits, fr, pr, dl, rc, eq>>

\* ser.read returns bytes: buf.extend(chunk)
RlReadChunk ==
    /\ pc = "rl_loop"
    /\ ~stop_evt /\ ~upload_event
    /\ \E chunk \in Chunks :
          /\ buf' = buf \o chunk
          /\ nlTotal' = nlTotal + CountLF(chunk)
          /\ rxTail' = AfterLastLF(rxTail \o chunk)
    /\ lastOp' = "read"
    /\ pc' = "rl_scan"
    /\ UNCHANGED <<port, ser_is_open, trig_is_open, backoff, found_marker, text, stop_evt,
                   upload_event, out_q, mount_point, uf2_files, uf2_idx, attempt, polls,
                   mpc, line, got, openHandles, epoch, nSleeps, slept, leftVia, outcome,
                   logCopied, logFailed, onDrive, nAttempts, globbed, req, nReady, dropped,
                   carried, asked, nWaits, fr, pr, dl, rc, eq>>

\* nl = buf.find(b"\n"): -1 ends the inner loop, otherwise the line is cut
\* out of buf and decoded
RlScan ==
    /\ pc = "rl_scan"
    /\ LET nl == Find(buf) IN
       IF nl = 0
       THEN /\ pc' = "rl_loop"
            /\ carried' = 0
            /\ UNCHANGED <<buf, text>>
       ELSE /\ text' = Item(LineAt(buf, nl), epoch, nlTotal - CountLF(Rest(buf, nl)))
            /\ buf' = DelLine(buf, nl)
            /\ pc' = "rl_put"
            /\ carried' = carried
    /\ UNCHANGED <<port, ser_is_open, trig_is_open, backoff, found_marker, stop_evt,
                   upload_event, out_q, mount_point, uf2_files, uf2_idx, attempt, polls,
                   mpc, line, got, openHandles, epoch, nlTotal, lastOp, nSleeps, slept,
                   leftVia, outcome, logCopied, logFailed, onDrive, nAttempts, globbed,
                   req, nReady, rxTail, dropped, asked, nWaits, fr, pr, dl, rc, eq>>

\* a hand-over that drops the line when the queue is full, as put_nowait would
RlPut_Drops ==
    /\ pc = "rl_put"
    /\ out_q' = IF Len(out_q) < QueueCap THEN Enqueue(out_q, text) ELSE out_q
    /\ text' = NoItem
    /\ pc' = "rl_scan"
    /\ UNCHANGED <<port, ser_is_open, trig_is_open, buf, backoff, found_marker, stop_evt,
                   upload_event, mount_point, uf2_files, uf2_idx, attempt, polls, mpc,
                   line, got, openHandles, epoch, nlTotal, lastOp, nSleeps, slept, leftVia,
                   outcome, logCopied, logFailed, onDrive, nAttempts, globbed, req, nReady,
                   rxTail, dropped, carried, asked, nWaits, fr, pr, dl, rc, eq>>

\* self.out_q.put(text) returns once the queue has room
RlPut ==
    /\ pc = "rl_put"
    /\ Len(out_q) < QueueCap
    /\ out_q' = Enqueue(out_q, text)
    /\ text' = NoItem
    /\ pc' = "rl_scan"
    /\ UNCHANGED <<port, ser_is_open, trig_is_open, buf, backoff, found_marker, stop_evt,
                   upload_event, mount_point, uf2_files, uf2_idx, attempt, polls, mpc,
                   line, got, openHandles, epoch, nlTotal, lastOp, nSleeps, slept, leftVia,
                   outcome, logCopied, logFailed, onDrive, nAttempts, globbed, req, nReady,
                   rxTail, dropped, carried, asked, nWaits, fr, pr, dl, rc, eq>>

(***************************************************************************)
(* _handle_upload(), entered from _read_loop() when upload_event is set.   *)
(***************************************************************************)

\* a procedure that clears the request flag when it starts
UpCommand_ClearsFirst ==
    /\ pc = "rl_loop"
    /\ ~stop_evt /\ upload_event
    /\ \E ok \in BOOLEAN : lastOp' = IF ok THEN "write_upload" ELSE "write_upload_failed"
    /\ outcome' = "running"
    /\ upload_event' = FALSE
    /\ pc' = "up_close"
    /\ carried' = 0
    /\ UNCHANGED <<port, ser_is_open, trig_is_open, buf, backoff, found_marker, text,
                   stop_evt, out_q, mount_point, uf2_files, uf2_idx, attempt, polls, mpc,
                   line, got, openHandles, epoch, nlTotal, nSleeps, slept, leftVia,
                   logCopied, logFailed, onDrive, nAttempts, globbed, req, nReady, rxTail,
                   dropped, asked, nWaits, fr, pr, dl, rc, eq>>

\* if self.upload_event.is_set(): self._handle_upload(ser): the UPLOAD command
\* is written and flushed, a failure only printed
UpCommand ==
    /\ pc = "rl_loop"
    /\ ~stop_evt /\ upload_event
    /\ \E ok \in BOOLEAN : lastOp' = IF ok THEN "write_upload" ELSE "write_upload_failed"
    /\ outcome' = "running"
    /\ pc' = "up_close"
    /\ carried' = 0
    /\ UNCHANGED <<port, ser_is_open, trig_is_open, buf, backoff, found_marker, text,
                   stop_evt, upload_event, out_q, mount_point, uf2_files, uf2_idx, attempt,
                   polls, mpc, line, got, openHandles, epoch, nlTotal, nSleeps, slept,
                   leftVia, logCopied, logFailed, onDrive, nAttempts, globbed, req, nReady,
                   rxTail, dropped, asked, nWaits, fr, pr, dl, rc, eq>>

\* ser.close(); if not port: port = self.port_getter()
UpClose ==
    /\ pc = "up_close"
    /\ WithExit
    /\ asked' = (port = NoPort)
    /\ \E p \in (IF port = NoPort THEN PortNames \cup {NoPort} ELSE {port}) :
          /\ port' = p
          /\ pc' = IF p = NoPort THEN "up_wait" ELSE "up_trig"
    /\ UNCHANGED <<trig_is_open, buf, backoff, found_marker, text, stop_evt, upload_event,
                   out_q, mount_point, uf2_files, uf2_idx, attempt, polls, mpc, line, got,
                   epoch, nlTotal, nSleeps, slept, leftVia, outcome, logCopied, logFailed,
                   onDrive, nAttempts, globbed, req, nReady, rxTail, dropped, carried,
                   nWaits, fr, pr, dl, rc, eq>>

\* with serial.Serial(port, 1200) as trig: the open goes through
UpTrigOpen ==
    /\ pc = "up_trig"
    /\ trig_is_open' = TRUE
    /\ openHandles' = openHandles + 1
    /\ lastOp' = "trig_open"
    /\ pc' = "up_trig_close"
    /\ UNCHANGED <<port, ser_is_open, buf, backoff, found_marker, text, stop_evt,
                   upload_event, out_q, mount_point, uf2_files, uf2_idx, attempt, polls,
                   mpc, line, got, epoch, nlTotal, nSleeps, slept, leftVia, outcome,
                   logCopied, logFailed, onDrive, nAttempts, globbed, req, nReady, rxTail,
                   dropped, carried, asked, nWaits, fr, pr, dl, rc, eq>>

\* a procedure that gives up when the trigger open fails
UpTrigFail_Aborts ==
    /\ pc = "up_trig"
    /\ lastOp' = "trig_open_failed"
    /\ outcome' = "drive-not-found"
    /\ upload_event' = FALSE
    /\ leftVia' = "upload"
    /\ pc' = "disconnected"
    /\ UNCHANGED <<port, ser_is_open, trig_is_open, buf, backoff, found_marker, text,
                   stop_evt, out_q, mount_point, uf2_files, uf2_idx, attempt, polls, mpc,
                   line, got, openHandles, epoch, nlTotal, nSleeps, slept, logCopied,
                   logFailed, onDrive, nAttempts, globbed, req, nReady, rxTail, dropped,
                   carried, asked, nWaits, fr, pr, dl, rc, eq>>

\* serial.Serial(port, 1200) raises: print("Bootloader trigger warning ...")
UpTrigFail ==
    /\ pc = "up_trig"
    /\ lastOp' = "trig_open_failed"
    /\ pc' = "up_wait"
    /\ UNCHANGED <<port, ser_is_open, trig_is_open, buf, backoff, found_marker, text,
                   stop_evt, upload_event, out_q, mount_point, uf2_files, uf2_idx, attempt,
                   polls, mpc, line, got, openHandles, epoch, nlTotal, nSleeps, slept,
                   leftVia, outcome, logCopied, logFailed, onDrive, nAttempts, globbed,
                   req, nReady, rxTail, dropped, carried, asked, nWaits, fr, pr, dl, rc, eq>>

\* pass: the with block of the trigger handle is left at once
UpTrigClose ==
    /\ pc = "up_trig_close"
    /\ trig_is_open' = FALSE
    /\ openHandles' = HandlesAfterClose(openHandles, trig_is_open)
    /\ lastOp' = "trig_close"
    /\ pc' = "up_wait"
    /\ UNCHANGED <<port, ser_is_open, buf, backoff, found_marker, text, stop_evt,
                   upload_event, out_q, mount_point, uf2_files, uf2_idx, attempt, polls,
                   mpc, line, got, epoch, nlTotal, nSleeps, slept, leftVia, outcome,
                   logCopied, logFailed, onDrive, nAttempts, globbed, req, nReady, rxTail,
                   dropped, carried, asked, nWaits, fr, pr, dl, rc, eq>>

\* a give-up that goes on to the copy phase
UpWaitGiveUp_NoReturn ==
    /\ pc = "up_wait"
    /\ stop_evt \/ polls >= 1
    /\ outcome' = "drive-not-found"
    /\ upload_event' = FALSE
    /\ pc' = "up_glob"
    /\ UNCHANGED <<port, ser_is_open, trig_is_open, buf, backoff, found_marker, text,
                   stop_evt, out_q, mount_point, uf2_files, uf2_idx, attempt, polls, mpc,
                   line, got, openHandles, epoch, nlTotal, lastOp, nSleeps, slept, leftVia,
                   logCopied, logFailed, onDrive, nAttempts, globbed, req, nReady, rxTail,
                   dropped, carried, asked, nWaits, fr, pr, dl, rc, eq>>

\* _wait_for_uf2_drive(): the deadline has passed (at the latest after
\* MaxPolls polls) or the stop signal is set: return None;
\* print("UF2 drive not found; upload failed."); self.upload_event.clear()
UpWaitGiveUp ==
    /\ pc = "up_wait"
    /\ stop_evt \/ polls >= 1
    /\ outcome' = "drive-not-found"
    /\ upload_event' = FALSE
    /\ UploadLeaves
    /\ UNCHANGED <<port, trig_is_open, buf, backoff, found_marker, text, stop_evt, out_q,
                   mount_point, uf2_files, uf2_idx, attempt, polls, mpc, line, got, epoch,
                   nlTotal, nSleeps, slept, logCopied, logFailed, onDrive, nAttempts,
                   globbed, req, nReady, rxTail, dropped, carried, asked, nWaits, fr, pr,
                   dl, rc, eq>>

\* mount = self._find_pico_drive() is None; time.sleep(0.5)
UpPollNone ==
    /\ pc = "up_wait"
    /\ ~stop_evt /\ polls < MaxPolls
    /\ polls' = polls + 1
    /\ UNCHANGED <<pc, port, ser_is_open, trig_is_open, buf, backoff, found_marker, text,
                   stop_evt, upload_event, out_q, mount_point, uf2_files, uf2_idx, attempt,
                   mpc, line, got, openHandles, epoch, nlTotal, lastOp, nSleeps, slept,
                   leftVia, outcome, logCopied, logFailed, onDrive, nAttempts, globbed,
                   req, nReady, rxTail, dropped, carried, asked, nWaits, fr, pr, dl, rc, eq>>

\* a poll that finds the drive and goes on polling
UpPollFound_KeepsPolling ==
    /\ pc = "up_wait"
    /\ ~stop_evt /\ polls < MaxPolls
    /\ mount_point' = "/media/RPI-RP2"
    /\ polls' = polls + 1
    /\ UNCHANGED <<pc, port, ser_is_open, trig_is_open, buf, backoff, found_marker, text,
                   stop_evt, upload_event, out_q, uf2_files, uf2_idx, attempt, mpc, line,
                   got, openHandles, epoch, nlTotal, lastOp, nSleeps, slept, leftVia,
                   outcome, logCopied, logFailed, onDrive, nAttempts, globbed, req, nReady,
                   rxTail, dropped, carried, asked, nWaits, fr, pr, dl, rc, eq>>

\* mount = self._find_pico_drive() is a mount point: return mount
UpPollFound ==
    /\ pc = "up_wait"
    /\ ~stop_evt /\ polls < MaxPolls
    /\ mount_point' = "/media/RPI-RP2"
    /\ pc' = "up_glob"
    /\ UNCHANGED <<port, ser_is_open, trig_is_open, buf, backoff, found_marker, text,
                   stop_evt, upload_event, out_q, uf2_files, uf2_idx, attempt, polls, mpc,
                   line, got, openHandles, epoch, nlTotal, lastOp, nSleeps, slept, leftVia,
                   outcome, logCopied, logFailed, onDrive, nAttempts, globbed, req, nReady,
                   rxTail, dropped, carried, asked, nWaits, fr, pr, dl, rc, eq>>

\* psutil.disk_partitions() raises inside _find_pico_drive(): nothing in
\* _handle_upload catches it; _read_loop prints "Upload handling error"
UpPollRaise ==
    /\ pc = "up_wait"
    /\ ~stop_evt /\ polls < MaxPolls
    /\ outcome' = "exception"
    /\ WithExit
    /\ leftVia' = "uploadexc"
    /\ pc' = "disconnected"
    /\ UNCHANGED <<port, trig_is_open, buf, backoff, found_marker, text, stop_evt,
                   upload_event, out_q, mount_point, uf2_files, uf2_idx, attempt, polls,
                   mpc, line, got, epoch, nlTotal, nSleeps, slept, logCopied, logFailed,
                   onDrive, nAttempts, globbed, req, nReady, rxTail, dropped, carried,
                   asked, nWaits, fr, pr, dl, rc, eq>>

\* uf2_files = glob.glob(...) is empty: print("No .uf2 files found ...");
\* self.upload_event.clear(); return
UpGlobNone ==
    /\ pc = "up_glob"
    /\ globbed' = TRUE
    /\ uf2_files' = <<>>
    /\ outcome' = "no-image-found"
    /\ upload_event' = FALSE
    /\ UploadLeaves
    /\ UNCHANGED <<port, trig_is_open, buf, backoff, found_marker, text, stop_evt, out_q,
                   mount_point, uf2_idx, attempt, polls, mpc, line, got, epoch, nlTotal,
                   nSleeps, slept, logCopied, logFailed, onDrive, nAttempts, req, nReady,
                   rxTail, dropped, carried, asked, nWaits, fr, pr, dl, rc, eq>>

\* uf2_files = glob.glob(...) lists images: the copy loop starts
UpGlob ==
    /\ pc = "up_glob"
    /\ globbed' = TRUE
    /\ \E files \in ImageLists \ {<<>>} : uf2_files' = files
    /\ uf2_idx' = 1
    /\ attempt' = 0
    /\ pc' = "up_copy"
    /\ UNCHANGED <<port, ser_is_open, trig_is_open, buf, backoff, found_marker, text,
                   stop_evt, upload_event, out_q, mount_point, polls, mpc, line, got,
                   openHandles, epoch, nlTotal, lastOp, nSleeps, slept, leftVia, outcome,
                   logCopied, logFailed, onDrive, nAttempts, req, nReady, rxTail, dropped,
                   carried, asked, nWaits, fr, pr, dl, rc, eq>>

\* a report that does not look at success
PrintsCopied_Always(success) == TRUE

\* if success: print("Copied ...") else: print("Failed to copy ...")
PrintsCopied(success) == success

\* the image the for loop is at
Uf2 == uf2_files[uf2_idx]

\* the report on that image, and the for loop goes on to the next image or
\* the copy phase is over
NextImage(success) ==
    /\ IF PrintsCopied(success)
       THEN logCopied' = logCopied \cup {Uf2} /\ logFailed' = logFailed
       ELSE logFailed' = logFailed \cup {Uf2} /\ logCopied' = logCopied
    /\ uf2_idx' = uf2_idx + 1
    /\ attempt' = 0
    /\ pc' = IF uf2_idx = Len(uf2_files) THEN "up_finish" ELSE "up_copy"

\* shutil.copy(uf2, mount_point) goes through: success = True; break
UpCopyOk ==
    /\ pc = "up_copy"
    /\ attempt < CopyRetry
    /\ onDrive' = onDrive \cup {Uf2}
    /\ nAttempts' = nAttempts + 1
    /\ NextImage(TRUE)
    /\ UNCHANGED <<port, ser_is_open, trig_is_open, buf, backoff, found_marker, text,
                   stop_evt, upload_event, out_q, mount_point, uf2_files, polls, mpc, line,
                   got, openHandles, epoch, nlTotal, lastOp, nSleeps, slept, leftVia,
                   outcome, globbed, req, nReady, rxTail, dropped, carried, asked, nWaits,
                   fr, pr, dl, rc, eq>>

\* a failed attempt that is not counted
UpCopyFail_NoCount ==
    /\ pc = "up_copy"
    /\ attempt < CopyRetry
    /\ attempt' = attempt
    /\ nAttempts' = nAttempts + 1
    /\ nWaits' = nWaits + 1
    /\ UNCHANGED <<pc, port, ser_is_open, trig_is_open, buf, backoff, found_marker, text,
                   stop_evt, upload_event, out_q, mount_point, uf2_files, uf2_idx, polls,
                   mpc, line, got, openHandles, epoch, nlTotal, lastOp, nSleeps, slept,
                   leftVia, outcome, logCopied, logFailed, onDrive, globbed, req, nReady,
                   rxTail, dropped, carried, asked, fr, pr, dl, rc, eq>>

\* shutil.copy raises: print("Copy attempt failed"); time.sleep(UF2_COPY_WAIT)
UpCopyFail ==
    /\ pc = "up_copy"
    /\ attempt < CopyRetry
    /\ attempt' = attempt + 1
    /\ nAttempts' = nAttempts + 1
    /\ nWaits' = nWaits + 1
    /\ UNCHANGED <<pc, port, ser_is_open, trig_is_open, buf, backoff, found_marker, text,
                   stop_evt, upload_event, out_q, mount_point, uf2_files, uf2_idx, polls,
                   mpc, line, got, openHandles, epoch, nlTotal, lastOp, nSleeps, slept,
                   leftVia, outcome, logCopied, logFailed, onDrive, globbed, req, nReady,
                   rxTail, dropped, carried, asked, fr, pr, dl, rc, eq>>

\* range(UF2_COPY_RETRY) is used up with success still False
UpCopyGiveUp ==
    /\ pc = "up_copy"
    /\ attempt >= CopyRetry
    /\ NextImage(FALSE)
    /\ UNCHANGED <<port, ser_is_open, trig_is_open, buf, backoff, found_marker, text,
                   stop_evt, upload_event, out_q, mount_point, uf2_files, polls, mpc, line,
                   got, openHandles, epoch, nlTotal, lastOp, nSleeps, slept, leftVia,
                   outcome, onDrive, nAttempts, globbed, req, nReady, rxTail, dropped,
                   carried, asked, nWaits, fr, pr, dl, rc, eq>>

\* print("Upload sequence finished ..."); self.upload_event.clear()
UpFinish ==
    /\ pc = "up_finish"
    /\ outcome' = "finished"
    /\ upload_event' = FALSE
    /\ UploadLeaves
    /\ UNCHANGED <<port, trig_is_open, buf, backoff, found_marker, text, stop_evt, out_q,
                   mount_point, uf2_files, uf2_idx, attempt, polls, mpc, line, got, epoch,
                   nlTotal, nSleeps, slept, logCopied, logFailed, onDrive, nAttempts,
                   globbed, req, nReady, rxTail, dropped, carried, asked, nWaits, fr, pr,
                   dl, rc, eq>>

(***************************************************************************)
(* The other threads.                                                      *)
(***************************************************************************)

\* request_firmware_upload(): self.upload_event.set() under upload_lock
RequestUpload ==
    /\ upload_event' = TRUE
    /\ req' = IF pc \in UploadPcs THEN [req EXCEPT !.dup = TRUE]
              ELSE IF upload_event THEN req
              ELSE [ph |-> Phase(pc), ep |-> epoch, dup |-> FALSE]
    /\ UNCHANGED <<pc, port, ser_is_open, trig_is_open, buf, backoff, found_marker, text,
                   stop_evt, out_q, mount_point, uf2_files, uf2_idx, attempt, polls, mpc,
                   line, got, openHandles, epoch, nlTotal, lastOp, nSleeps, slept, leftVia,
                   outcome, logCopied, logFailed, onDrive, nAttempts, globbed, nReady,
                   rxTail, dropped, carried, asked, nWaits, fr, pr, dl, rc, eq>>

\* run_threads(): line = out_q.get(timeout=QUEUE_TIMEOUT) returns an item
MainGet ==
    /\ mpc = "get"
    /\ out_q # <<>>
    /\ line' = Head(out_q)
    /\ got' = <<Head(out_q).ep, Head(out_q).n>>
    /\ out_q' = Tail(out_q)
    /\ mpc' = "write"
    /\ UNCHANGED <<pc, port, ser_is_open, trig_is_open, buf, backoff, found_marker, text,
                   stop_evt, upload_event, mount_point, uf2_files, uf2_idx, attempt, polls,
                   openHandles, epoch, nlTotal, lastOp, nSleeps, slept, leftVia, outcome,
                   logCopied, logFailed, onDrive, nAttempts, globbed, req, nReady, rxTail,
                   dropped, carried, asked, nWaits, fr, pr, dl, rc, eq>>

\* print(line); recorder.write_line(line)
MainWrite ==
    /\ mpc = "write"
    /\ line' = NoItem
    /\ mpc' = "get"
    /\ UNCHANGED <<pc, port, ser_is_open, trig_is_open, buf, backoff, found_marker, text,
                   stop_evt, upload_event, out_q, mount_point, uf2_files, uf2_idx, attempt,
                   polls, got, openHandles, epoch, nlTotal, lastOp, nSleeps, slept,
                   leftVia, outcome, logCopied, logFailed, onDrive, nAttempts, globbed,
                   req, nReady, rxTail, dropped, carried, asked, nWaits, fr, pr, dl, rc, eq>>

\* KeyboardInterrupt in the loop; finally: stop_evt.set()
MainInterrupt ==
    /\ mpc \in {"get", "write"}
    /\ stop_evt' = TRUE
    /\ mpc' = "join"
    /\ UNCHANGED <<pc, port, ser_is_open, trig_is_open, buf, backoff, found_marker, text,
                   upload_event, out_q, mount_point, uf2_files, uf2_idx, attempt, polls,
                   line, got, openHandles, epoch, nlTotal, lastOp, nSleeps, slept, leftVia,
                   outcome, logCopied, logFailed, onDrive, nAttempts, globbed, req, nReady,
                   rxTail, dropped, carried, asked, nWaits, fr, pr, dl, rc, eq>>

\* reader.join(timeout=THREAD_JOIN_TIMEOUT) returns; recorder.close()
MainJoin ==
    /\ mpc = "join"
    /\ mpc' = "closed"
    /\ UNCHANGED <<pc, port, ser_is_open, trig_is_open, buf, backoff, found_marker, text,
                   stop_evt, upload_event, out_q, mount_point, uf2_files, uf2_idx, attempt,
                   polls, line, got, openHandles, epoch, nlTotal, lastOp, nSleeps, slept,
                   leftVia, outcome, logCopied, logFailed, onDrive, nAttempts, globbed,
                   req, nReady, rxTail, dropped, carried, asked, nWaits, fr, pr, dl, rc, eq>>

(***************************************************************************)
(* The specification of the link worker with its consumer.                 *)
(***************************************************************************)
WorkerNext ==
    \/ RunStop \/ RunLoop \/ SleepRetry \/ OpenOk \/ OpenFail \/ Disconnected
    \/ SleepBackoff
    \/ HsWrite \/ HsError \/ HsReadEmpty \/ HsReadChunk \/ HsScan \/ HsPut
    \/ HsReturnTrue \/ HsReturnFalse
    \/ RlStop \/ RlReadError \/ RlReadEmpty \/ RlReadChunk \/ RlScan \/ RlPut
    \/ UpCommand \/ UpClose \/ UpTrigOpen \/ UpTrigFail \/ UpTrigClose
    \/ UpWaitGiveUp \/ UpPollNone \/ UpPollFound \/ UpPollRaise
    \/ UpGlobNone \/ UpGlob
    \/ UpCopyOk \/ UpCopyFail \/ UpCopyGiveUp \/ UpFinish

Next == WorkerNext \/ RequestUpload \/ MainGet \/ MainWrite \/ MainInterrupt \/ MainJoin

Spec == Init /\ [][Next]_vars

(***************************************************************************)
(* The framing specification: one byte stream, cut into chunks in every    *)
(* way, is fed chunk by chunk to the chunk processing of _read_loop().     *)
(***************************************************************************)
FrameInit ==
    /\ InitLink
    /\ pr = NoQuery
    /\ dl = NoSearch
    /\ rc = NoRec /\ eq = NoEq
    /\ \E s \in SeqsUpTo(FrameBytes, MaxStream) :
          fr = [stream |-> s, fed |-> 0, nchunks |-> 0, buf |-> <<>>, lines |-> <<>>]

\* one pass of the loop body: chunk = ser.read(...); buf.extend(chunk); the
\* inner loop puts every complete line
FeedChunk ==
    /\ \E k \in 1..(Len(fr.stream) - fr.fed) :
          LET r == ProcessChunk(fr.buf, SubSeq(fr.stream, fr.fed + 1, fr.fed + k))
          IN  fr' = [stream |-> fr.stream, fed |-> fr.fed + k,
                     nchunks |-> fr.nchunks + 1, buf |-> r.buf,
                     lines |-> fr.lines \o r.lines]
    /\ UNCHANGED <<linkVars, pr, dl, rc, eq>>

FrameNext == FeedChunk

FrameSpec == FrameInit /\ [][FrameNext]_vars

(***************************************************************************)
(* The port-resolution specification: one call of _get_port() for every   *)
(* command line and every list of ports within the bounds.                *)
(***************************************************************************)
PortInit ==
    /\ InitLink
    /\ fr = NoFeed
    /\ dl = NoSearch
    /\ rc = NoRec /\ eq = NoEq
    /\ \E a \in ArgSets, l \in PortLists :
          pr = [args |-> a, comports |-> l, result |-> <<>>, done |-> FALSE]

\* port = self.port_getter()
Resolve ==
    /\ ~pr.done
    /\ pr' = [pr EXCEPT !.result = get_port(pr.args, pr.comports), !.done = TRUE]
    /\ UNCHANGED <<linkVars, fr, dl, rc, eq>>

PortNext == Resolve

PortSpec == PortInit /\ [][PortNext]_vars

(***************************************************************************)
(* The drive-location specification: one poll of _find_pico_drive() for    *)
(* every list of mounted partitions within the bounds, on Linux and on     *)
(* Windows, with or without an unmounted block device that has the label.  *)
(***************************************************************************)
DriveInit ==
    /\ InitLink
    /\ fr = NoFeed
    /\ pr = NoQuery
    /\ rc = NoRec /\ eq = NoEq
    /\ \E s \in {"Linux", "Windows"} : \E l \in PartLists(s), u \in (IF s = "Linux" THEN BOOLEAN ELSE {FALSE}) :
          dl = [system |-> s, parts |-> l, unmounted |-> u, result |-> <<>>,
                done |-> FALSE]

\* mount = self._find_pico_drive()
Locate ==
    /\ ~dl.done
    /\ dl' = [dl EXCEPT !.result = find_pico_drive(dl.parts, dl.system), !.done = TRUE]
    /\ UNCHANGED <<linkVars, fr, pr, rc, eq>>

DriveNext == Locate

DriveSpec == DriveInit /\ [][DriveNext]_vars

(***************************************************************************)
(* The recorder specification: a FileRecorder made on day 1, with or       *)
(* without a data directory and session marker, is given up to MaxWrites   *)
(* lines, the date moving on at most to day MaxDays, and is then closed.   *)
(***************************************************************************)
RecInit ==
    /\ InitLink
    /\ fr = NoFeed
    /\ pr = NoQuery
    /\ dl = NoSearch
    /\ eq = NoEq
    /\ \E d \in BOOLEAN, m \in {<<>>, DEFAULT_SESSION_MARKER}, e \in ExistingSets :
          rc = NewRecorder(d, m, e)

\* recorder.write_line(line)
WriteLine ==
    /\ ~rc.closed
    /\ Len(rc.given) < MaxWrites
    /\ \E l \in RecLines, e \in ExistingSets :
       \E today \in {rc.cur_date, rc.cur_date + 1} \cap (1..MaxDays) :
          rc' = [write_line(rc, l, today, e) EXCEPT !.given = Append(@, l)]
    /\ UNCHANGED <<linkVars, fr, pr, dl, eq>>

\* recorder.close() at the end of run_threads()
CloseRecorder ==
    /\ ~rc.closed
    /\ rc' = [close(rc) EXCEPT !.closed = TRUE]
    /\ UNCHANGED <<linkVars, fr, pr, dl, eq>>

RecNext == WriteLine \/ CloseRecorder

RecSpec == RecInit /\ [][RecNext]_vars

(***************************************************************************)
(* The upload specification: one run of _handle_upload() from the state in *)
(* which _read_loop() finds the request flag set on the first connection,  *)
(* with the worker thread scheduled, while requests and the interrupt of   *)
(* the consumer may come at any time.                                      *)
(***************************************************************************)
UploadInit ==
    /\ pc = "rl_loop" /\ port \in PortNames
    /\ ser_is_open = TRUE /\ trig_is_open = FALSE /\ openHandles = 1
    /\ epoch = 1 /\ found_marker = TRUE /\ lastOp = "read"
    /\ buf = <<>> /\ rxTail = <<>> /\ nlTotal = 1 /\ got = <<1, 1>>
    /\ text = NoItem /\ out_q = <<>> /\ line = NoItem /\ mpc = "get"
    /\ backoff = INITIAL_BACKOFF /\ nSleeps = 0 /\ slept = 0 /\ leftVia = "none"
    /\ stop_evt = FALSE /\ upload_event = TRUE
    /\ req = [ph |-> "streaming", ep |-> 1, dup |-> FALSE]
    /\ mount_point = NoMount /\ uf2_files = <<>> /\ uf2_idx = 1 /\ attempt = 0
    /\ polls = 0 /\ outcome = "none" /\ globbed = FALSE /\ asked = FALSE
    /\ logCopied = {} /\ logFailed = {} /\ onDrive = {}
    /\ nAttempts = 0 /\ nWaits = 0 /\ nReady = 0 /\ dropped = 0 /\ carried = 0
    /\ fr = NoFeed /\ pr = NoQuery /\ dl = NoSearch /\ rc = NoRec /\ eq = NoEq

UploadWorker ==
    \/ UpCommand \/ UpClose \/ UpTrigOpen \/ UpTrigFail \/ UpTrigClose
    \/ UpWaitGiveUp \/ UpPollNone \/ UpPollFound \/ UpPollRaise
    \/ UpGlobNone \/ UpGlob
    \/ UpCopyOk \/ UpCopyFail \/ UpCopyGiveUp \/ UpFinish

UploadNext == UploadWorker \/ RequestUpload \/ MainInterrupt

UploadSpec == UploadInit /\ [][UploadNext]_vars /\ WF_vars(UploadWorker)

(***************************************************************************)
(* Properties.                                                             *)
(***************************************************************************)
Range(s) == {s[i] : i \in 1..Len(s)}

\* the upload procedure has just ended and run() has not yet gone on
UploadOver == pc = "disconnected" /\ leftVia \in {"upload", "uploadexc"}

\* C1: at most one serial handle on the device port is open in every reachable
\* state: the data connection is closed while the trigger handle is open, and no
\* handle is open when the reconnect loop makes an open attempt.
C1_OneHandle ==
    /\ openHandles <= 1
    /\ trig_is_open => ~ser_is_open
    /\ pc = "open" => openHandles = 0 /\ ~ser_is_open /\ ~trig_is_open

\* the trigger handle is open during an upload on the second connection
C1_Witness == trig_is_open /\ openHandles = 1 /\ epoch = 2 /\ pc = "up_trig_close"

\* C2: every step that ends the upload procedure, an exception caught in
\* _read_loop included, leaves the upload-request flag cleared.
C2_FlagClearedOnExit ==
    [][(pc \in UploadPcs /\ pc' \notin UploadPcs) => ~upload_event']_vars

\* C3: once the stop signal is set the worker has returned from run() or has a
\* step to take (it is never blocked for good), in every state it can be in.
C3_StopEndsWorker == stop_evt => (pc = "done" \/ ENABLED WorkerNext)

\* C4: the backoff delay is slept only after a failure of the link (a failed
\* open, a read error; an error in the handshake, the exit on the stop signal
\* and an exception that escaped the upload procedure are counted with them
\* here), never after the upload procedure has returned.
C4_NoBackoffAfterUpload ==
    pc = "sleep_backoff" =>
        leftVia \in {"openfail", "readerr", "hserr", "stop", "uploadexc"}

\* the delays 0.5, 0.75, 1.125, 1.6875, 2.53125, 3.796875, 5.0, 5.0 in 1/128 s
BackoffTable == <<64, 96, 144, 216, 324, 486, 640, 640>>

\* C5: the k-th backoff sleep since the last successful open (or since the start)
\* lasts 0.5 * 1.5^(k-1) s capped at 5.0 s, so the first one after a successful
\* open lasts 0.5 s; the delay never leaves [initial, max] and, between two
\* successful opens, never decreases.
C5_BackoffSequence ==
    /\ pc = "sleep_backoff" =>
          /\ nSleeps >= 1
          /\ slept = BackoffTable[Min(nSleeps, Len(BackoffTable))]
          /\ slept <= MAX_BACKOFF
          /\ backoff = slept
    /\ backoff >= INITIAL_BACKOFF /\ backoff <= MAX_BACKOFF
    /\ \A k \in 1..(Len(BackoffTable) - 1) : BackoffTable[k] <= BackoffTable[k + 1]

\* the seventh sleep in a row is the first at the cap
C5_Witness == pc = "sleep_backoff" /\ nSleeps = 7 /\ slept = MAX_BACKOFF

\* C6: whatever the chunks a byte stream is fed in, after each chunk the lines
\* emitted so far and the accumulator are those of feeding the bytes received so
\* far as one chunk.
C6_ChunkingIrrelevant ==
    LET whole == ProcessChunk(<<>>, SubSeq(fr.stream, 1, fr.fed))
    IN  fr.lines = whole.lines /\ fr.buf = whole.buf

\* the stream a LF a CR LF fed as [a], [LF a], [CR LF] has given the lines a, a
C6_Witness ==
    /\ fr.stream = <<97, LF, 97, CR, LF>>
    /\ fr.fed = 5 /\ fr.nchunks = 3
    /\ fr.lines = <<(<<97>>), (<<97>>)>>

\* the items between the worker and the consumer, oldest first
InFlight == out_q \o (IF pc \in {"hs_put", "rl_put"} THEN <<text>> ELSE <<>>)

LinesOf(b) == Drain(b, <<>>).lines

\* the marker occurs in the line t, at some position
MarkerIn(t) ==
    \E i \in 1..Len(t) : \E j \in i..Len(t) : SubSeq(t, i, j) = DEFAULT_SESSION_MARKER

\* C8: in the handshake, when the accumulator holds a complete line that contains
\* the marker, the first such line is handed to the queue and the handshake is
\* over; without such a line the handshake goes on. Once the marker is found no
\* ready message is written on this connection, and the worker goes from the
\* hand-over to the streaming loop with the connection still open.
C8_MarkerEndsHandshake ==
    [][/\ (pc = "hs_scan" /\ pc' # "hs_scan") =>
             IF \E i \in 1..Len(LinesOf(buf)) :
                    MarkerIn(LinesOf(buf)[i])
             THEN LET i == CHOOSE i \in 1..Len(LinesOf(buf)) :
                               /\ MarkerIn(LinesOf(buf)[i])
                               /\ \A j \in 1..(i - 1) :
                                     ~MarkerIn(LinesOf(buf)[j])
                  IN  /\ pc' = "hs_put"
                      /\ found_marker'
                      /\ text'.text = LinesOf(buf)[i]
             ELSE pc' = "hs_loop" /\ ~found_marker'
       /\ (pc = "hs_put" /\ pc' # "hs_put") =>
             /\ pc' = "hs_loop"
             /\ out_q' = Append(out_q, text)
             /\ found_marker'
       /\ (pc = "hs_loop" /\ found_marker /\ pc' # "hs_loop") =>
             /\ pc' = "rl_loop"
             /\ ser_is_open' /\ epoch' = epoch /\ buf' = buf
       /\ found_marker => lastOp' # "write_ready"
      ]_vars

\* the line SS, which holds the marker S and is not equal to it, was queued by
\* the handshake and the worker is in the streaming loop of that connection
C8_Witness ==
    /\ pc = "rl_loop" /\ ser_is_open
    /\ Len(out_q) = 1 /\ out_q[1].text = <<83, 83>> /\ out_q[1].ep = epoch

C10_AbortsCopyNothing ==
    /\ outcome = "drive-not-found" =>
          mount_point = NoMount /\ ~globbed /\ nAttempts = 0 /\ onDrive = {}
    /\ outcome = "no-image-found" =>
          /\ mount_point # NoMount /\ globbed
          /\ uf2_files = <<>> /\ nAttempts = 0 /\ onDrive = {}
    /\ (pc \in {"up_glob", "up_copy", "up_finish"} \/ globbed) => mount_point # NoMount
    /\ (pc \in {"up_copy", "up_finish"} \/ nAttempts > 0) => uf2_files # <<>>
    /\ (UploadOver /\ mount_point = NoMount) => outcome \in {"drive-not-found", "exception"}
    /\ (UploadOver /\ globbed /\ uf2_files = <<>>) => outcome = "no-image-found"

\* an upload has ended on the second connection because the folder was empty
C10_Witness == UploadOver /\ outcome = "no-image-found" /\ epoch = 2

\* the ways a connection attempt ends with an error
ErrorExits == {"openfail", "hserr", "readerr", "uploadexc"}

\* C11: no error ends the worker. After a failed open, an error in the
\* handshake, a read error while streaming or an exception out of the upload
\* procedure the worker is in its reconnect loop (at the "Disconnected" message
\* or in the backoff sleep, with a step to take), and run() has returned only
\* with the stop signal set.
C11_ErrorsAreCaught ==
    /\ pc = "done" => stop_evt
    /\ leftVia \in ErrorExits =>
          /\ pc \in {"disconnected", "sleep_backoff"}
          /\ ENABLED (Disconnected \/ SleepBackoff)

\* an exception out of the upload procedure was caught on the second
\* connection and the worker sleeps before it resolves the port again
C11_Witness ==
    pc = "sleep_backoff" /\ leftVia = "uploadexc" /\ epoch = 2 /\ ~stop_evt

\* everything but the request flag and the record of the request
AllButRequest ==
    <<pc, port, ser_is_open, trig_is_open, buf, backoff, found_marker, text, stop_evt,
      out_q, mount_point, uf2_files, uf2_idx, attempt, polls, mpc, line, fr, pr, dl, rc, eq,
      got, openHandles, epoch, nlTotal, lastOp, nSleeps, slept, leftVia, outcome, logCopied,
      logFailed, onDrive, nAttempts, globbed, nReady, rxTail, dropped, carried,
      asked, nWaits>>

\* C12: a request made while the upload procedure runs changes nothing (the
\* flag is set already and the procedure goes on where it was); the procedure
\* is entered only from the streaming loop, never from inside itself; and when a
\* procedure that saw such a request returns, the flag is cleared, so that the
\* request starts no further upload.
C12_RequestInFlightIsNoOp ==
    [][/\ (pc \in UploadPcs /\ req' # req) =>
             /\ req' = [req EXCEPT !.dup = TRUE]
             /\ upload_event /\ upload_event'
             /\ UNCHANGED AllButRequest
       /\ (pc' = "up_close" /\ pc # "up_close") => pc = "rl_loop"
       /\ (pc \in UploadPcs /\ pc' \notin UploadPcs /\ leftVia' = "upload" /\ req.dup) =>
             ~upload_event'
      ]_vars

\* an upload during which a second request came has ended after its copy phase
\* and the flag is cleared
C12_Witness ==
    /\ UploadOver /\ leftVia = "upload" /\ outcome = "finished"
    /\ req.dup /\ ~upload_event

\* C13: a request only sets the flag, in whatever state the worker is; only a
\* step of the upload procedure that ends it clears the flag; and with the
\* flag set and no stop signal the only step the streaming loop takes at the
\* top of an iteration is the start of the upload procedure.
C13_RequestStaysPending ==
    [][/\ (~upload_event /\ upload_event') =>
             /\ req' = [ph |-> Phase(pc), ep |-> epoch, dup |-> FALSE]
             /\ UNCHANGED AllButRequest
       /\ (upload_event /\ ~upload_event') =>
             pc \in UploadPcs /\ pc' = "disconnected"
       /\ ~upload_event => ENABLED RequestUpload
       /\ (pc = "rl_loop" /\ upload_event /\ ~stop_evt) =>
             /\ ENABLED UpCommand
             /\ ~ENABLED (RlStop \/ RlReadError \/ RlReadEmpty \/ RlReadChunk)
      ]_vars

\* a request made during a handshake that failed is still pending on the next
\* connection, where the upload procedure has just started
C13_Witness ==
    /\ pc = "up_close" /\ upload_event
    /\ req.ph = "handshaking" /\ req.ep = 1 /\ epoch = 2

\* C14: with an explicit port on the command line the resolver returns that
\* port and does not list the ports, whatever the filters and the ports present.
C14_ExplicitPortUnchecked ==
    (pr.done /\ pr.args.port # <<>>) =>
        pr.result = [port |-> pr.args.port, listed |-> FALSE]

\* /dev/ttyACM3 was asked for with a vid and pid no port has, three ports are
\* present, none of them /dev/ttyACM3, and /dev/ttyACM3 is the answer
C14_Witness ==
    /\ pr.done /\ pr.args.port = <<47, 100, 101, 118, 47, 116, 116, 121, 65, 67, 77, 51>>
    /\ pr.args.vid = 1027 /\ pr.args.pid = 10
    /\ Len(pr.comports) = 3
    /\ \A i \in 1..Len(pr.comports) :
          /\ pr.comports[i].device # pr.args.port
          /\ ~(pr.comports[i].vid = 1027 /\ pr.comports[i].pid = 10)
    /\ pr.result.port = <<47, 100, 101, 118, 47, 116, 116, 121, 65, 67, 77, 51>>

\* the string s occurs in t when letter case is ignored
SameLetter(a, b) ==
    \/ a = b
    \/ a \in 65..90 /\ b = a + 32
    \/ a \in 97..122 /\ b = a - 32
ContainsNoCase(t, s) ==
    \E i \in 0..(Len(t) - Len(s)) : \A k \in 1..Len(s) : SameLetter(t[i + k], s[k])

\* the predicate of the claim on a candidate, for the command line of pr
Satisfies(p) ==
    /\ pr.args.vid = 0 \/ p.vid = pr.args.vid
    /\ pr.args.pid = 0 \/ p.pid = pr.args.pid
    /\ pr.args.product = <<>> \/ ContainsNoCase(p.product, pr.args.product)
    /\ pr.args.manufacturer = <<>> \/ ContainsNoCase(p.manufacturer, pr.args.manufacturer)

\* the devices of the candidates that satisfy it
Matching == {pr.comports[i].device : i \in {j \in 1..Len(pr.comports) : Satisfies(pr.comports[j])}}

\* a COM<n> port (in either letter case) and its number
IsComN(d) == StartsWith(Upper(d), Str_COM) /\ IsDigits(SubSeq(d, 4, Len(d)))
ComNum(d) == ParseInt(SubSeq(d, 4, Len(d)))
\* a /dev/ttyACM* or /dev/ttyUSB* path
IsTty(d) == StartsWith(d, Str_ttyACM) \/ StartsWith(d, Str_ttyUSB)

\* C15: without an explicit port the resolver lists the ports and returns none
\* iff no candidate satisfies the predicate; otherwise it returns a candidate
\* that satisfies it and that no other such candidate precedes: with the hint
\* "windows" no COM<n> port of a lower number (and no COM<n> port at all if the
\* answer is not one), with another hint no ttyACM/ttyUSB path if the answer is
\* not one, and no path of the same class that is lexicographically smaller.
C15_FirstMatchInOrder ==
    (pr.done /\ pr.args.port = <<>>) =>
        LET r == pr.result.port IN
        /\ pr.result.listed
        /\ (r = <<>>) <=> (Matching = {})
        /\ r # <<>> =>
              /\ r \in Matching
              /\ \A m \in Matching \ {r} :
                    IF pr.args.platform = "windows"
                    THEN IsComN(m) => (IsComN(r) /\ ComNum(r) < ComNum(m))
                    ELSE \/ IsTty(r) /\ ~IsTty(m)
                         \/ IsTty(r) = IsTty(m) /\ StrLess(r, m)

\* comports() lists /dev/ttyACM0, COM10, COM3; with the hint "windows", the vid
\* of the Pico and the product substring PICO, COM3 comes first and does not
\* satisfy the predicate, and COM10 (product "Pico") is the answer
C15_Witness ==
    /\ pr.done /\ pr.args.port = <<>> /\ pr.args.platform = "windows"
    /\ pr.args.vid = 11914 /\ pr.args.product = <<80, 73, 67, 79>>
    /\ Len(pr.comports) = 3
    /\ pr.comports[1].device = <<47, 100, 101, 118, 47, 116, 116, 121, 65, 67, 77, 48>>
    /\ pr.comports[2].device = <<67, 79, 77, 49, 48>>
    /\ pr.comports[3].device = <<67, 79, 77, 51>>
    /\ pr.result.port = <<67, 79, 77, 49, 48>>

\* the mount points of the mounted volumes that have the label
Labelled == {dl.parts[i].mountpoint : i \in {j \in 1..Len(dl.parts) :
                 Lower(dl.parts[j].label) = Lower(PICO_DRIVE_LABEL)}}

\* the mount points of the mounted volumes that do not have it
Unlabelled == {dl.parts[i].mountpoint : i \in {j \in 1..Len(dl.parts) :
                   Lower(dl.parts[j].label) # Lower(PICO_DRIVE_LABEL)}}

\* where the fallback of find_pico_drive in test.py mounts an unmounted device
\* that has the label
FallbackMount == <<47, 109, 110, 116, 47, 82, 80, 73, 45, 82, 80, 50>>

\* C16: a poll of the locator returns the first path by priority. When a
\* mounted volume has the label, the poll returns such a volume; when none has
\* it but an unmounted block device has, the poll returns the path at which
\* that device is mounted, not a volume that only fits the heuristic and not
\* none; a volume without the label is returned only when neither is there.
C16_LocatorPriority ==
    dl.done =>
        /\ Labelled # {} => dl.result \in Labelled
        /\ (Labelled = {} /\ dl.unmounted) => dl.result = FallbackMount
        /\ dl.result \in Unlabelled => (Labelled = {} /\ ~dl.unmounted)

\* C17: the host ends its normal shutdown (join returned, recorder closed)
\* only when the worker has exited by the join deadline; a worker that still
\* has a step to take may have exited by then, one that is blocked has not.
C17_MissedJoinIsFatal ==
    mpc = "closed" => (pc = "done" \/ ENABLED WorkerNext)

\* C18: when the host has shut down, every line the worker put on the queue has
\* been passed to write_line: none is left on the queue and none was dequeued
\* without being written.
C18_EveryLineRecorded ==
    mpc = "closed" => (out_q = <<>> /\ line = NoItem)

HsPcs == {"hs_loop", "hs_read", "hs_scan", "hs_put"}
RlPcs == {"rl_loop", "rl_scan", "rl_put"}

\* C19: the worker keeps the lifecycle order. The handshake is entered only by
\* a successful open, the streaming loop only from a handshake that found the
\* marker and on the same open connection, the upload procedure only from the
\* top of the streaming loop; when the upload procedure ends, the connection is
\* closed and the worker goes through the backoff sleep to port resolution.
C19_LifecycleOrder ==
    [][/\ pc \in HsPcs => ser_is_open
       /\ pc \in RlPcs => ser_is_open /\ found_marker
       /\ (pc' \in HsPcs /\ pc \notin HsPcs) =>
             pc = "open" /\ pc' = "hs_loop" /\ ser_is_open' /\ epoch' = epoch + 1
       /\ (pc' \in RlPcs /\ pc \notin RlPcs) =>
             /\ pc = "hs_loop" /\ pc' = "rl_loop"
             /\ found_marker /\ ser_is_open' /\ epoch' = epoch
       /\ (pc' \in UploadPcs /\ pc \notin UploadPcs) =>
             pc = "rl_loop" /\ pc' = "up_close" /\ upload_event
       /\ (pc \in UploadPcs /\ pc' \notin UploadPcs) =>
             pc' = "disconnected" /\ ~ser_is_open' /\ ~trig_is_open'
       /\ (pc = "disconnected" /\ pc' # pc) => pc' = "sleep_backoff"
       /\ (pc = "sleep_backoff" /\ pc' # pc) => pc' = "run_loop"
       /\ (pc = "run_loop" /\ pc' # pc) => pc' \in {"open", "sleep_retry", "done"}
      ]_vars

\* the upload procedure has returned on the second connection, the connection
\* is closed and the worker is on its way back to port resolution
C19_Witness ==
    /\ pc = "sleep_backoff" /\ leftVia = "upload"
    /\ ~ser_is_open /\ ~trig_is_open /\ epoch = 2

\* C20: the backoff delay goes back to its initial value only on the step that
\* enters the streaming loop; an open whose handshake is still to come leaves
\* the delay as it is.
C20_ResetOnStreamingOnly ==
    [][(backoff' = INITIAL_BACKOFF /\ backoff # INITIAL_BACKOFF) =>
          (pc' = "rl_loop" /\ pc # "rl_loop")]_vars

\* C21: the backoff delay lies in [initial, max] in every reachable state, and
\* a step changes it only by resetting it to initial on a successful open or by
\* multiplying it by 1.5, capped at max, when the sleep after a failed or ended
\* connection attempt is over.
C21_BackoffBoundedAndStepped ==
    /\ [](INITIAL_BACKOFF <= backoff /\ backoff <= MAX_BACKOFF)
    /\ [][backoff' # backoff =>
            \/ /\ pc = "open" /\ ~ser_is_open /\ ser_is_open'
               /\ backoff' = INITIAL_BACKOFF
            \/ /\ pc = "sleep_backoff" /\ pc' = "run_loop" /\ ~ser_is_open
               /\ backoff' = Min(MAX_BACKOFF, (backoff * 3) \div 2)]_vars

\* the delay has reached the cap and a further failure has left it there, and
\* the next open attempt is about to be made
C21_Witness ==
    pc = "open" /\ backoff = MAX_BACKOFF /\ nSleeps = MaxFails /\ epoch = 0

\* C22: when the handshake loop finds the stop signal set and the marker not
\* seen, it returns failure without another ready message: the worker's next
\* step closes the connection and takes it to the top of run() with nothing
\* put on the queue, the streaming loop not entered and no backoff sleep begun,
\* and from there, the signal still set, run() only returns.
C22_CancelledHandshake ==
    [][/\ (pc = "hs_loop" /\ stop_evt /\ ~found_marker /\ pc' # pc) =>
             /\ pc' = "run_loop"
             /\ ~ser_is_open' /\ lastOp' = "close"
             /\ out_q' = out_q /\ text' = text
             /\ nSleeps' = nSleeps /\ slept' = slept /\ backoff' = backoff
       /\ (pc = "run_loop" /\ stop_evt /\ pc' # pc) => pc' = "done"
       /\ stop_evt => stop_evt'
      ]_vars

\* the worker is back at the top of run() from a handshake that the stop signal
\* cancelled on the first connection: the connection was closed last, no sleep
\* was taken
C22_Witness ==
    /\ pc = "run_loop" /\ stop_evt /\ epoch = 1 /\ ~found_marker
    /\ lastOp = "close" /\ nSleeps = 0 /\ ~ser_is_open

\* C23: the handshake has no maximum attempt count. While the marker has not
\* been seen and the stop signal is not set, the loop top always goes on to
\* write the ready message, however many it has written, each iteration writes
\* it, and the handshake is left only by a serial error, never on its own.
C23_HandshakeUnbounded ==
    /\ []((pc = "hs_loop" /\ ~found_marker /\ ~stop_evt) => ENABLED HsWrite)
    /\ [][/\ (pc = "hs_loop" /\ pc' = "hs_read") =>
                lastOp' = "write_ready" /\ nReady' = Min(nReady + 1, MaxReady)
          /\ (pc \in HsPcs /\ ~found_marker /\ ~stop_evt /\ pc' \notin HsPcs) =>
                pc' = "disconnected" /\ leftVia' = "hserr"
         ]_vars

\* the ready message has been written MaxReady times or more in one handshake
\* that has seen neither the marker nor the stop signal
C23_Witness ==
    /\ pc = "hs_read" /\ nReady = MaxReady /\ lastOp = "write_ready"
    /\ ~found_marker /\ ~stop_evt

\* C24: the accumulator is empty at the start of every connection, and in every
\* state what it holds after its last line feed is what was received on the
\* connection in progress after the last line feed received on it: no byte of an
\* earlier connection is in it, so none can get into a line emitted later.
C24_AccumulatorPerConnection ==
    /\ (ser_is_open /\ lastOp = "open") => buf = <<>>
    /\ AfterLastLF(buf) = rxTail

\* the second connection has just been opened with an empty accumulator, and
\* the first one had left bytes without a line feed behind
C24_Witness ==
    /\ pc = "hs_loop" /\ epoch = 2 /\ lastOp = "open" /\ ser_is_open
    /\ dropped > 0 /\ buf = <<>>

\* the bytes received so far in the framing specification
Received == SubSeq(fr.stream, 1, fr.fed)

\* the index in s of its k-th line feed, and 0 for k = 0
NthLF(s, k) ==
    IF k = 0 THEN 0
    ELSE CHOOSE i \in 1..Len(s) :
             s[i] = LF /\ Cardinality({j \in 1..i : s[j] = LF}) = k

\* the bytes of s between its (k-1)-th and its k-th line feed
Between(s, k) == SubSeq(s, NthLF(s, k - 1) + 1, NthLF(s, k) - 1)

\* C25: after each chunk the streaming loop has processed, the accumulator holds
\* no line feed and is exactly what was received after the last line feed; the
\* lines emitted are, in order, one for each line feed received: the bytes
\* between it and the line feed before, without the line feed and without one
\* trailing carriage return if there is one, decoded.
C25_FramingBetweenLineFeeds ==
    LET rx == Received
        nLF == Cardinality({i \in 1..Len(rx) : rx[i] = LF})
    IN  /\ \A i \in 1..Len(fr.buf) : fr.buf[i] # LF
        /\ fr.buf = SubSeq(rx, NthLF(rx, nLF) + 1, Len(rx))
        /\ Len(fr.lines) = nLF
        /\ \A k \in 1..nLF :
              LET seg == Between(rx, k)
                  n == Len(seg)
              IN  fr.lines[k] =
                      Decode(IF n > 0 /\ seg[n] = CR THEN SubSeq(seg, 1, n - 1) ELSE seg)

\* the stream a CR CR LF a, fed in two chunks, has given the one line a CR and
\* left a in the accumulator
C25_Witness ==
    /\ fr.stream = <<97, CR, CR, LF, 97>>
    /\ fr.fed = 5 /\ fr.nchunks = 2
    /\ fr.lines = <<(<<97, CR>>)>>
    /\ fr.buf = <<97>>

\* C26: the upload procedure keeps its order. It starts by writing the upload
\* command to the data connection, which is still open; its next step closes the
\* data connection; then the port is opened at the trigger rate and closed again
\* at once, with nothing in between; only then, with both handles closed, does
\* the polling for the drive start. A failed command write and a failed trigger
\* open are followed by the same next steps as successful ones.
C26_UploadStepOrder ==
    [][/\ (pc' = "up_close" /\ pc # "up_close") =>
             /\ pc = "rl_loop" /\ ser_is_open /\ ser_is_open'
             /\ lastOp' \in {"write_upload", "write_upload_failed"}
       /\ (pc = "up_close" /\ pc' # pc) =>
             /\ lastOp \in {"write_upload", "write_upload_failed"}
             /\ ~ser_is_open' /\ lastOp' = "close"
             /\ pc' = IF port' = NoPort THEN "up_wait" ELSE "up_trig"
       /\ (pc = "up_trig" /\ pc' # pc) =>
             /\ ~ser_is_open
             /\ \/ pc' = "up_trig_close" /\ trig_is_open' /\ lastOp' = "trig_open"
                \/ pc' = "up_wait" /\ ~trig_is_open' /\ lastOp' = "trig_open_failed"
       /\ (pc = "up_trig_close" /\ pc' # pc) =>
             pc' = "up_wait" /\ ~trig_is_open' /\ lastOp' = "trig_close"
       /\ (pc' = "up_wait" /\ pc # "up_wait") =>
             pc \in {"up_close", "up_trig", "up_trig_close"}
       /\ (polls' # polls \/ mount_point' # mount_point) /\ pc' \in UploadPcs =>
             pc = "up_wait" /\ ~ser_is_open /\ ~trig_is_open
      ]_vars

\* the drive is being polled for after the trigger open failed
C26_Witness ==
    /\ pc = "up_wait" /\ polls = 1 /\ lastOp = "trig_open_failed"
    /\ ~ser_is_open /\ ~trig_is_open /\ upload_event

\* C27: for the bootloader trigger the upload procedure asks the port resolver
\* again: once it has closed the data connection, whatever it does next (the
\* trigger on a port, or the polling when there is none) comes after a call of
\* the port getter, the port of the closed connection being only the fallback.
C27_TriggerReResolves ==
    pc \in (UploadPcs \ {"up_close"}) => asked

C29_DriveWaitTerminates ==
    /\ [](pc = "up_wait" => mount_point = NoMount /\ polls \in 0..MaxPolls)
    /\ [][pc = "up_wait" /\ <<pc, polls, mount_point>>' # <<pc, polls, mount_point>> =>
            \/ /\ pc' = "up_wait" /\ polls' = polls + 1 /\ mount_point' = NoMount
               /\ ~stop_evt
            \/ /\ pc' = "up_glob" /\ mount_point' # NoMount /\ polls' = polls
               /\ ~stop_evt /\ polls < MaxPolls
            \/ /\ pc' = "disconnected" /\ outcome' = "drive-not-found"
               /\ mount_point' = NoMount /\ (stop_evt \/ polls >= 1)
            \/ /\ pc' = "disconnected" /\ outcome' = "exception"
               /\ mount_point' = NoMount
         ]_vars
    /\ (pc = "up_wait") ~> (pc # "up_wait")

\* the drive was found by the second poll, and the procedure has gone on to the
\* upload folder with its mount path
C29_Witness ==
    /\ pc = "up_glob" /\ polls = 1 /\ mount_point # NoMount
    /\ ~stop_evt /\ outcome = "running"

\* C30: the queue never holds more than its capacity and the streaming loop
\* drops no line: a line it has cut out of the accumulator is held until the
\* queue has room, the worker taking no step while the queue is full, and is
\* appended to the queue by the worker's next step, before the next line is cut.
C30_BoundedQueueNoDrop ==
    /\ [](Len(out_q) <= QueueCap)
    /\ []((pc = "rl_put" /\ Len(out_q) = QueueCap) => ~ENABLED WorkerNext)
    /\ []((pc = "rl_put" /\ Len(out_q) < QueueCap) => ENABLED RlPut)
    /\ [][/\ (pc = "rl_scan" /\ buf' # buf) =>
                /\ pc' = "rl_put"
                /\ text'.text = LinesOf(buf)[1]
          /\ (pc = "rl_put" /\ pc' = pc) => text' = text /\ buf' = buf
          /\ (pc = "rl_put" /\ pc' # pc) =>
                /\ Len(out_q) < QueueCap
                /\ out_q' = Append(out_q, text)
                /\ buf' = buf /\ pc' = "rl_scan"
         ]_vars

\* the worker holds a line of the second connection while the queue is full and
\* the consumer has not yet come back for the next item
C30_Witness ==
    /\ pc = "rl_put" /\ Len(out_q) = QueueCap /\ text # NoItem
    /\ epoch = 2 /\ mpc = "write" /\ ~stop_evt

\* the lines of a sequence of writes, in the order they were written
LinesWritten(w) == [i \in 1..Len(w) |-> w[i].line]

\* the line starts with the data prefix D
IsDataLine(l) == l # <<>> /\ Head(l) = 68

\* the string m occurs in the line t
Occurs(m, t) == \E i \in 1..(Len(t) + 1) : \E j \in (i - 1)..Len(t) : SubSeq(t, i, j) = m

\* C31: the recorder writes every line it is given to a session log file, in
\* the order given, and writes to the data file exactly the lines that start
\* with the data prefix when a data directory is configured, none otherwise.
C31_EveryLineWritten ==
    /\ LinesWritten(rc.log) = rc.given
    /\ \A i \in 1..Len(rc.log) : rc.log[i].file # NoFile
    /\ LinesWritten(rc.data) =
          IF rc.data_dir THEN SelectSeq(rc.given, IsDataLine) ELSE <<>>

\* C32: while the date stays the same, a write_line call never lowers the
\* session index; a line that contains the session marker raises it by exactly
\* one when a session file is open and leaves it as it is when none is open,
\* and then the session file of the resulting index is the open one; a line
\* without the marker leaves the index as it is, and so does close().
C32_SessionIndexSteps ==
    [][rc'.cur_date = rc.cur_date =>
          /\ rc'.session_index >= rc.session_index
          /\ Len(rc'.given) = Len(rc.given) => rc'.session_index = rc.session_index
          /\ Len(rc'.given) = Len(rc.given) + 1 =>
                LET l == rc'.given[Len(rc'.given)]
                    marked == rc.session_marker # <<>> /\ Occurs(rc.session_marker, l)
                IN  /\ marked =>
                          /\ rc'.session_index =
                                IF rc.cur_file # NoFile THEN rc.session_index + 1
                                ELSE rc.session_index
                          /\ rc'.cur_file =
                                [date |-> rc.cur_date, idx |-> rc'.session_index]
                    /\ ~marked =>
                          /\ rc'.session_index = rc.session_index
                          /\ rc'.cur_file = [date |-> rc.cur_date, idx |-> rc.session_index]
      ]_vars

\* a recorder that started at index 1 on day 1 was given the marker line, which
\* made session 1 without raising the index, the line a, which went to
\* session 1, and the marker line again, which rolled to session 2
C32_Witness ==
    /\ rc.given = <<(<<83>>), (<<97>>), (<<83>>)>> /\ rc.cur_date = 1
    /\ rc.session_index = 2 /\ rc.cur_file = [date |-> 1, idx |-> 2]
    /\ rc.log = <<[file |-> [date |-> 1, idx |-> 1], line |-> <<97>>]>>

\* C33: on a connection nothing is put on the queue before the marker line.
\* While the handshake has not found the marker, no line of this connection is
\* queued, held or dequeued; a scan that does not find the marker removes every
\* complete line from the accumulator and queues nothing; the line the
\* handshake puts contains the marker and is the first of its connection; and
\* every line put afterwards came later in the byte stream than the lines
\* already put on that connection.
C33_NothingBeforeMarker ==
    /\ []((pc \in HsPcs /\ (~found_marker \/ pc = "hs_put")) =>
             /\ \A i \in 1..Len(out_q) : out_q[i].ep # epoch
             /\ got[1] # epoch
             /\ line.ep # epoch)
    /\ [][/\ (pc = "hs_scan" /\ pc' = "hs_loop") =>
                /\ Find(buf') = 0 /\ buf' = AfterLastLF(buf)
                /\ out_q' = out_q
          /\ (pc = "hs_scan" /\ pc' = "hs_put") =>
                /\ MarkerIn(text'.text) /\ text'.ep = epoch
                /\ out_q' = out_q
          /\ (pc \in HsPcs /\ out_q' # out_q /\ Len(out_q') >= Len(out_q)) =>
                /\ pc = "hs_put"
                /\ out_q' = Append(out_q, text)
                /\ MarkerIn(text.text) /\ text.ep = epoch
          /\ (Len(out_q') > Len(out_q)) =>
                LET x == out_q'[Len(out_q')] IN
                /\ \A i \in 1..Len(out_q) : out_q[i].ep = x.ep => out_q[i].n < x.n
                /\ got[1] = x.ep => got[2] < x.n
                /\ line.ep = x.ep => line.n < x.n
         ]_vars

\* the second line of the connection's byte stream is the marker line: it is
\* the only line of the connection on the queue, the worker is in the streaming
\* loop and the consumer has taken nothing of this connection; the first line
\* was discarded by the handshake
C33_Witness ==
    /\ pc = "rl_loop" /\ ser_is_open /\ found_marker
    /\ out_q = <<Item(DEFAULT_SESSION_MARKER, epoch, 2)>>
    /\ got[1] # epoch /\ line.ep # epoch

\* b2 is what follows in b the line feed of the first line of b that contains
\* the marker, and t is that line
AfterMarkerLine(b, b2, t) ==
    \E k \in 1..Len(b) :
        /\ b[k] = LF
        /\ b2 = SubSeq(b, k + 1, Len(b))
        /\ LET ls == LinesOf(SubSeq(b, 1, k)) IN
              /\ ls # <<>> /\ t = ls[Len(ls)] /\ MarkerIn(t)
              /\ \A j \in 1..(Len(ls) - 1) : ~MarkerIn(ls[j])

EqInit ==
    /\ InitLink /\ fr = NoFeed /\ pr = NoQuery /\ dl = NoSearch /\ rc = NoRec
    /\ eq = NoEq

\* both readers go on to their next loop head or call
EqStep ==
    /\ eq.n < MaxEvents
    /\ eq.m.pc # "done"
    /\ \E ev \in EqEvents(eq.m) :
          eq' = [eq EXCEPT !.m = SerialReaderStep(eq.m, eq.stop, ev),
                           !.s = StandaloneReaderStep(eq.s, eq.stop, ev),
                           !.n = @ + 1]
    /\ UNCHANGED <<linkVars, fr, pr, dl, rc>>

\* stop_evt.set()
EqStop ==
    /\ ~eq.stop
    /\ eq' = [eq EXCEPT !.stop = TRUE]
    /\ UNCHANGED <<linkVars, fr, pr, dl, rc>>

EqNext == EqStep \/ EqStop

EqSpec == EqInit /\ [][EqNext]_vars

\* C35: without upload requests, the reader of serial_reader.py and the reader
\* of pico_log_recorder.py, given the same port-resolution results, the same
\* serial events and the same stop signal, are at the same loop head or call
\* and have made the same opens, ready-message writes and closes and put the
\* same lines on the queue, in the same order.
C35_ReadersEquivalent ==
    /\ eq.m.pc = eq.s.pc
    /\ eq.m.io = eq.s.io
    /\ eq.m.out = eq.s.out
    /\ eq.m.open = eq.s.open /\ eq.m.buf = eq.s.buf

\* both readers have ended after two connections: on the first the marker line
\* was put and a read failed, on the second the stop signal ended the
\* handshake, after which only the reader of pico_log_recorder.py slept
C35_Witness ==
    /\ eq.m.pc = "done" /\ eq.s.pc = "done"
    /\ eq.m.out = <<DEFAULT_SESSION_MARKER>> /\ eq.s.out = eq.m.out
    /\ Len(eq.m.io) = 5 /\ eq.s.io = eq.m.io
    /\ eq.m.slept = 1 /\ eq.s.slept = 2

=============================================================================
